---- MODULE Spec2Model ----
(***************************************************************************)
(* Model of the title-generation orchestration of rlaksana/title-generator *)
(* (src/src/aiService.ts, src/src/validation.ts, src/src/settings.ts).     *)
(*                                                                         *)
(* A JavaScript string is a sequence of one-character strings, so that     *)
(* trim, slice, replace, includes and the regular expressions of the code  *)
(* are computed character by character.                                    *)
(***************************************************************************)
EXTENDS Integers, Sequences, FiniteSets, TLC

(***************************************************************************)
(* JavaScript string primitives                                            *)
(***************************************************************************)

\* The characters matched by \s (and removed by String.prototype.trim).
WhiteSpace == {" ", "\t", "\n", "\r"}

SetMin(S) == CHOOSE x \in S : \A y \in S : x <= y

\* The position of the first character of s from i on that is not in set,
\* Len(s) + 1 when there is none.
RECURSIVE FirstOutside(_, _, _)
FirstOutside(s, set, i) ==
  IF i > Len(s) THEN i
  ELSE IF s[i] \notin set THEN i
  ELSE FirstOutside(s, set, i + 1)

\* The position of the last character of s up to i that is not in set, 0 when
\* there is none.
RECURSIVE LastOutside(_, _, _)
LastOutside(s, set, i) ==
  IF i < 1 THEN 0
  ELSE IF s[i] \notin set THEN i
  ELSE LastOutside(s, set, i - 1)

\* s without its leading and trailing characters of set.
StripBoth(s, set) == SubSeq(s, FirstOutside(s, set, 1), LastOutside(s, set, Len(s)))

\* s.trim()
Trim(s) == StripBoth(s, WhiteSpace)

\* s.slice(0, n) for n >= 0
Slice0(s, n) == SubSeq(s, 1, IF n < Len(s) THEN n ELSE Len(s))

\* Whether p occurs in s at position i (1-based).
MatchesAt(s, p, i) ==
  /\ i >= 1
  /\ i + Len(p) - 1 <= Len(s)
  /\ \A k \in 1..Len(p) : s[i + k - 1] = p[k]

\* s.indexOf(p, from) as a 1-based position, 0 when p does not occur.
RECURSIVE IndexOf(_, _, _)
IndexOf(s, p, from) ==
  IF from + Len(p) - 1 > Len(s) THEN 0
  ELSE IF MatchesAt(s, p, from) THEN from
  ELSE IndexOf(s, p, from + 1)

\* s.includes(p)
Includes(s, p) == \E i \in 1..(Len(s) - Len(p) + 1) : MatchesAt(s, p, i)

\* s.startsWith(p)
StartsWith(s, p) == MatchesAt(s, p, 1)

\* s.endsWith(p)
EndsWith(s, p) == Len(p) <= Len(s) /\ MatchesAt(s, p, Len(s) - Len(p) + 1)

UpperCaseLetters ==
  <<"A","B","C","D","E","F","G","H","I","J","K","L","M",
    "N","O","P","Q","R","S","T","U","V","W","X","Y","Z">>

LowerCaseLetters ==
  <<"a","b","c","d","e","f","g","h","i","j","k","l","m",
    "n","o","p","q","r","s","t","u","v","w","x","y","z">>

LowerOf ==
  [c \in {UpperCaseLetters[i] : i \in 1..26} |->
     LowerCaseLetters[CHOOSE i \in 1..26 : UpperCaseLetters[i] = c]]

UpperOf ==
  [c \in {LowerCaseLetters[i] : i \in 1..26} |->
     UpperCaseLetters[CHOOSE i \in 1..26 : LowerCaseLetters[i] = c]]

LowerChar(c) == IF c \in DOMAIN LowerOf THEN LowerOf[c] ELSE c

UpperChar(c) == IF c \in DOMAIN UpperOf THEN UpperOf[c] ELSE c

\* s.toLowerCase()
ToLowerCase(s) == [i \in 1..Len(s) |-> LowerChar(s[i])]

\* s.toUpperCase()
ToUpperCase(s) == [i \in 1..Len(s) |-> UpperChar(s[i])]

Digits == <<"0","1","2","3","4","5","6","7","8","9">>

\* n.toString() for an integer n >= 0
RECURSIVE NumberToString(_)
NumberToString(n) ==
  IF n < 10 THEN <<Digits[n + 1]>>
  ELSE NumberToString(n \div 10) \o <<Digits[(n % 10) + 1]>>

\* The replacement text of String.prototype.replace with a string pattern
\* (ECMAScript GetSubstitution, no capture groups): "$$" is "$", "$&" the
\* matched text, "$`" the text before the match, "$'" the text after it;
\* any other "$" is literal.
RECURSIVE GetSubstitution(_, _, _, _)
GetSubstitution(matched, before, after, repl) ==
  IF repl = <<>> THEN <<>>
  ELSE IF repl[1] = "$" /\ Len(repl) >= 2 /\ repl[2] \in {"$", "&", "`", "'"}
  THEN (CASE repl[2] = "$" -> <<"$">>
          [] repl[2] = "&" -> matched
          [] repl[2] = "`" -> before
          [] repl[2] = "'" -> after)
       \o GetSubstitution(matched, before, after, SubSeq(repl, 3, Len(repl)))
  ELSE <<repl[1]>> \o GetSubstitution(matched, before, after, Tail(repl))

\* s.replace(pat, repl) with a string pattern: the first occurrence only.
Replace(s, pat, repl) ==
  LET i == IndexOf(s, pat, 1)
  IN IF i = 0 THEN s
     ELSE LET before == SubSeq(s, 1, i - 1)
              after == SubSeq(s, i + Len(pat), Len(s))
          IN before \o GetSubstitution(pat, before, after, repl) \o after

\* s.replace(/[set]/g, '')
RemoveChars(s, set) == SelectSeq(s, LAMBDA c : c \notin set)

\* s.split('\n')
RECURSIVE SplitLines(_)
SplitLines(s) ==
  LET i == IndexOf(s, <<"\n">>, 1)
  IN IF i = 0 THEN <<s>>
     ELSE <<SubSeq(s, 1, i - 1)>> \o SplitLines(SubSeq(s, i + 1, Len(s)))

(***************************************************************************)
(* Response Cleaner: AIService.cleanAIResponse                             *)
(***************************************************************************)

ThinkOpen == <<"<","t","h","i","n","k",">">>

ThinkClose == <<"<","/","t","h","i","n","k",">">>

\* The label prefixes removed by the final polish, in the order of the
\* regular expression's alternatives.
LabelPrefixes ==
  << <<"T","i","t","l","e",":">>,
     <<"G","e","n","e","r","a","t","e","d"," ","t","i","t","l","e",":">>,
     <<"S","u","g","g","e","s","t","e","d"," ","t","i","t","l","e",":">>,
     <<"T","h","e"," ","t","i","t","l","e",":">>,
     <<"A"," ","t","i","t","l","e",":">>,
     <<"H","e","r","e","'","s"," ","t","h","e"," ","t","i","t","l","e",":">> >>

\* The conversational-preamble patterns tested on each line.
PreamblePatterns ==
  LabelPrefixes \o
  << <<"S","u","r","e",","," ","h","e","r","e">>,
     <<"I","'","l","l">>,
     <<"I"," ","w","o","u","l","d">>,
     <<"B","a","s","e","d"," ","o","n">> >>

\* The index of the first of pats that lowered starts with, 0 when none does.
RECURSIVE FirstPrefix(_, _, _)
FirstPrefix(lowered, pats, k) ==
  IF k > Len(pats) THEN 0
  ELSE IF StartsWith(lowered, pats[k]) THEN k
  ELSE FirstPrefix(lowered, pats, k + 1)

LabelPrefixesLower == [k \in 1..Len(LabelPrefixes) |-> ToLowerCase(LabelPrefixes[k])]

PreamblePatternsLower ==
  [k \in 1..Len(PreamblePatterns) |-> ToLowerCase(PreamblePatterns[k])]

\* /^(Title:|...|Based on)/i.test(line)
IsPreamble(line) == FirstPrefix(ToLowerCase(line), PreamblePatternsLower, 1) # 0

\* No response taken for a reasoning block as a whole.
WholeThinkNever(text) == FALSE

\* text.match(/^<think>([\s\S]*)<\/think>$/): the first capture group, when the
\* expression matches.
WholeThinkMatches(text) ==
  /\ Len(text) >= Len(ThinkOpen) + Len(ThinkClose)
  /\ StartsWith(text, ThinkOpen)
  /\ EndsWith(text, ThinkClose)

WholeThinkGroup(text) ==
  SubSeq(text, Len(ThinkOpen) + 1, Len(text) - Len(ThinkClose))

\* text.replace(/<think>[\s\S]*?<\/think>/g, ''): each match runs from the
\* leftmost remaining "<think>" to the first "</think>" after it, and the scan
\* goes on after the match.
RECURSIVE RemoveThinkBlocks(_)
RemoveThinkBlocks(text) ==
  LET i == IndexOf(text, ThinkOpen, 1)
      j == IF i = 0 THEN 0 ELSE IndexOf(text, ThinkClose, i + Len(ThinkOpen))
  IN IF i = 0 \/ j = 0 THEN text
     ELSE SubSeq(text, 1, i - 1)
          \o RemoveThinkBlocks(SubSeq(text, j + Len(ThinkClose), Len(text)))

\* text.split('\n').map(trim).filter(non-empty)
NonEmptyTrimmedLines(text) ==
  LET raw == SplitLines(text)
      trimmed == [k \in 1..Len(raw) |-> Trim(raw[k])]
  IN SelectSeq(trimmed, LAMBDA l : Len(l) > 0)

\* The first line, filler or not.
FirstLineAlways(lines) == IF lines = <<>> THEN <<>> ELSE lines[1]

\* The first line without conversational filler, '' when there is none.
RECURSIVE FirstPlainLine(_)
FirstPlainLine(lines) ==
  IF lines = <<>> THEN <<>>
  ELSE IF ~IsPreamble(lines[1]) THEN lines[1]
  ELSE FirstPlainLine(Tail(lines))

\* s with its leading white space removed (the \s* of the polish expression).
TrimStart(s) == SubSeq(s, FirstOutside(s, WhiteSpace, 1), Len(s))

\* line.replace(/^(Title:|...|Here's the title:)\s*/i, '')
StripLabelPrefix(line) ==
  LET hit == FirstPrefix(ToLowerCase(line), LabelPrefixesLower, 1)
  IN IF hit = 0 THEN line
     ELSE TrimStart(SubSeq(line, Len(LabelPrefixes[hit]) + 1, Len(line)))

QuoteChars == {"\"", "'"}

cleanAIResponse(response) ==
  IF response = <<>> THEN <<>>
  ELSE
    LET trimmed == Trim(response)
        unwrapped ==
          IF WholeThinkMatches(trimmed) /\ WholeThinkGroup(trimmed) # <<>>
          THEN Trim(WholeThinkGroup(trimmed))
          ELSE trimmed
        textToClean == Trim(RemoveThinkBlocks(unwrapped))
        lines == NonEmptyTrimmedLines(textToClean)
        firstPlain == FirstPlainLine(lines)
        bestCandidate ==
          IF firstPlain = <<>> /\ Len(lines) > 0 THEN lines[1] ELSE firstPlain
        finalTitle == RemoveChars(StripLabelPrefix(bestCandidate), QuoteChars)
    IN Trim(finalTitle)

(***************************************************************************)
(* Filename sanitation and truncation                                      *)
(***************************************************************************)

\* TITLE_CONFIG.FORBIDDEN_CHARS: < > : " / \ | ? * and the control characters
\* 0x00-0x1F (tab, line feed and carriage return among them).
ForbiddenChars == {"<", ">", ":", "\"", "/", "\\", "|", "?", "*", "\t", "\n", "\r"}

FALLBACK_TITLE == <<"U","n","t","i","t","l","e","d">>

\* s.replace(/\s+/g, ' ')
RECURSIVE CollapseWhiteSpace(_)
CollapseWhiteSpace(s) ==
  IF s = <<>> THEN <<>>
  ELSE IF s[1] \in WhiteSpace
  THEN <<" ">> \o CollapseWhiteSpace(TrimStart(s))
  ELSE <<s[1]>> \o CollapseWhiteSpace(Tail(s))

\* The leading run removed only: s.replace(/^[ .]+/, '')
StripDotsAndSpacesLeading(s) == SubSeq(s, FirstOutside(s, {" ", "."}, 1), Len(s))

\* s.replace(/^[ .]+|[ .]+$/g, '')
StripDotsAndSpaces(s) == StripBoth(s, {" ", "."})

sanitizeFilename(filename) ==
  IF filename = <<>> THEN FALLBACK_TITLE
  ELSE
    LET stripped == RemoveChars(filename, ForbiddenChars)
        normal == Trim(CollapseWhiteSpace(stripped))
        safe == StripDotsAndSpaces(normal)
    IN IF Len(safe) > 0 THEN safe ELSE FALLBACK_TITLE

\* utils.truncateTitle is not among the sources: the final hard truncation
\* to the configured maximum length.
truncateTitle(title, maxLength) == Slice0(title, maxLength)

(***************************************************************************)
(* Provider adapters: AIService.callAI, callOpenAI, callAnthropic,         *)
(* callGoogle                                                              *)
(***************************************************************************)

\* The closed enumeration AIProvider.
Providers == {"openai", "anthropic", "google"}

\* The provider's name in notices and error messages.
ProviderName(p) ==
  CASE p = "openai" -> <<"O","p","e","n","A","I">>
    [] p = "anthropic" -> <<"A","n","t","h","r","o","p","i","c">>
    [] p = "google" -> <<"G","o","o","g","l","e"," ","G","e","m","i","n","i">>

KeyNotSetSuffix ==
  <<" ","A","P","I"," ","k","e","y"," ","i","s"," ","n","o","t"," ","s","e","t",".">>

UnsupportedProviderMessage ==
  <<"U","n","s","u","p","p","o","r","t","e","d"," ","A","I"," ","p","r","o","v",
    "i","d","e","r"," ","s","e","l","e","c","t","e","d",".">>

\* The outcome of the synchronous part of an adapter: a thrown error, or the
\* request handed to requestUrl.
Thrown(message) == [ok |-> FALSE, message |-> message, request |-> <<>>]

Requested(request) == [ok |-> TRUE, message |-> <<>>, request |-> <<request>>]

\* callOpenAI up to its await: reasoning models (o*, gpt-5*) get no temperature.
callOpenAI(st, prompt) ==
  IF st.openAiApiKey = <<>>
  THEN Thrown(ProviderName("openai") \o KeyNotSetSuffix)
  ELSE
    LET isReasoningModel ==
          \/ StartsWith(st.openAiModel, <<"o">>)
          \/ Includes(st.openAiModel, <<"g","p","t","-","5">>)
    IN Requested([provider |-> "openai",
                  apiKey |-> st.openAiApiKey,
                  model |-> st.openAiModel,
                  temperature |-> IF isReasoningModel THEN <<>>
                                  ELSE <<st.temperature>>,
                  prompt |-> prompt])

\* callAnthropic up to its await: temperature 1.0 when thinking is enabled on a
\* reasoning model (temperatures are in hundredths).
callAnthropic(st, prompt) ==
  IF st.anthropicApiKey = <<>>
  THEN Thrown(ProviderName("anthropic") \o KeyNotSetSuffix)
  ELSE
    LET isReasoningModel ==
          \/ Includes(st.anthropicModel, <<"4","-","5">>)
          \/ Includes(st.anthropicModel, <<"3","-","7">>)
    IN Requested([provider |-> "anthropic",
                  apiKey |-> st.anthropicApiKey,
                  model |-> st.anthropicModel,
                  temperature |->
                    IF isReasoningModel /\ st.anthropicThinkingEnabled
                    THEN <<100>> ELSE <<st.temperature>>,
                  prompt |-> prompt])

\* callGoogle without its test of the key.
callGoogleUnchecked(st, prompt) ==
  Requested([provider |-> "google",
             apiKey |-> st.googleApiKey,
             model |-> st.googleModel,
             temperature |-> <<st.temperature>>,
             prompt |-> prompt])

\* callGoogle up to its await.
callGoogle(st, prompt) ==
  IF st.googleApiKey = <<>>
  THEN Thrown(ProviderName("google") \o KeyNotSetSuffix)
  ELSE Requested([provider |-> "google",
                  apiKey |-> st.googleApiKey,
                  model |-> st.googleModel,
                  temperature |-> <<st.temperature>>,
                  prompt |-> prompt])

\* `${prompt}\n\n${content}`.trim()
FullPrompt(prompt, content) == Trim(prompt \o <<"\n","\n">> \o content)

\* callAI up to the adapter's await; st is what getSettings() returns when the
\* call is made.
\* callAI falling back to OpenAI for a provider it does not know.
callAIDefaultOpenAi(st, prompt, content) ==
  CASE st.aiProvider = "anthropic" -> callAnthropic(st, FullPrompt(prompt, content))
    [] st.aiProvider = "google" -> callGoogle(st, FullPrompt(prompt, content))
    [] OTHER -> callOpenAI(st, FullPrompt(prompt, content))

callAI(st, prompt, content) ==
  CASE st.aiProvider = "openai" -> callOpenAI(st, FullPrompt(prompt, content))
    [] st.aiProvider = "anthropic" -> callAnthropic(st, FullPrompt(prompt, content))
    [] st.aiProvider = "google" -> callGoogle(st, FullPrompt(prompt, content))
    [] OTHER -> Thrown(UnsupportedProviderMessage)

\* What requestUrl can hand back.  A response carries a status, the raw body
\* text and the parsed body: whether the provider's array (choices / content /
\* candidates[0].content.parts) is there, its blocks, and Google's finishReason.
\* A network failure rejects with an error message.
HttpResponse(status, text, hasItems, items, finishReason) ==
  [kind |-> "response", status |-> status, text |-> text, hasItems |-> hasItems,
   items |-> items, finishReason |-> finishReason, message |-> <<>>]

NetworkFailure(message) ==
  [kind |-> "reject", status |-> 0, text |-> <<>>, hasItems |-> FALSE,
   items |-> <<>>, finishReason |-> "", message |-> message]

TextBlock(text) == [type |-> "text", hasText |-> TRUE, text |-> text, thought |-> FALSE]

ThoughtBlock(text) == [type |-> "thinking", hasText |-> TRUE, text |-> text, thought |-> TRUE]

\* The outcome of the rest of an adapter, after its await.
Returned(text, noticesEmitted) ==
  [ok |-> TRUE, text |-> text, message |-> <<>>, notices |-> noticesEmitted]

Raised(message) == [ok |-> FALSE, text |-> <<>>, message |-> message, notices |-> <<>>]

\* `${name} API error (${response.status}): ${response.text}`
ApiErrorMessage(p, response) ==
  ProviderName(p) \o <<" ","A","P","I"," ","e","r","r","o","r"," ","(">>
  \o NumberToString(response.status) \o <<")",":"," ">> \o response.text

\* The TypeError of reading a property of undefined.
TypeErrorMessage ==
  <<"C","a","n","n","o","t"," ","r","e","a","d"," ","p","r","o","p","e","r","t",
    "i","e","s"," ","o","f"," ","u","n","d","e","f","i","n","e","d">>

Notice(kind, provider, field, message) ==
  [kind |-> kind, provider |-> provider, field |-> field, message |-> message]

\* data.choices[0]?.message?.content?.trim() ?? ''
openAIText(response) ==
  IF response.kind = "reject" THEN Raised(response.message)
  ELSE IF response.status # 200 THEN Raised(ApiErrorMessage("openai", response))
  ELSE IF ~response.hasItems THEN Raised(TypeErrorMessage)
  ELSE IF response.items = <<>> \/ ~response.items[1].hasText
  THEN Returned(<<>>, <<>>)
  ELSE Returned(Trim(response.items[1].text), <<>>)

\* data.content.find((c) => c.type === 'text')?.text?.trim() ?? ''
anthropicText(response) ==
  IF response.kind = "reject" THEN Raised(response.message)
  ELSE IF response.status # 200 THEN Raised(ApiErrorMessage("anthropic", response))
  ELSE IF ~response.hasItems THEN Raised(TypeErrorMessage)
  ELSE
    LET hits == {k \in 1..Len(response.items) : response.items[k].type = "text"}
    IN IF hits = {} \/ ~response.items[SetMin(hits)].hasText
       THEN Returned(<<>>, <<>>)
       ELSE Returned(Trim(response.items[SetMin(hits)].text), <<>>)

\* The first part with a non-empty text that is not a thought; '' (and, when
\* the output was blocked, a safety notice) when the parts are missing.
googleText(response) ==
  IF response.kind = "reject" THEN Raised(response.message)
  ELSE IF response.status # 200 THEN Raised(ApiErrorMessage("google", response))
  ELSE IF ~response.hasItems
  THEN Returned(<<>>, IF response.finishReason = "SAFETY"
                     THEN <<Notice("safety", "google", "", <<>>)>> ELSE <<>>)
  ELSE
    LET hits == {k \in 1..Len(response.items) :
                   /\ response.items[k].hasText
                   /\ response.items[k].text # <<>>
                   /\ ~response.items[k].thought}
    IN IF hits = {} THEN Returned(<<>>, <<>>)
       ELSE Returned(Trim(response.items[SetMin(hits)].text), <<>>)

\* The rest of the adapter that issued the request, on its response.
adapterText(provider, response) ==
  CASE provider = "openai" -> openAIText(response)
    [] provider = "anthropic" -> anthropicText(response)
    [] provider = "google" -> googleText(response)

(***************************************************************************)
(* Settings and inputs of the model                                        *)
(***************************************************************************)

\* How many edits of the settings tab a behaviour may hold.
MaxEdits == 1

\* The configured maximum title length.
TitleLimit == 10

\* The configured maximum content length.
ContentLimit == 6

\* DEFAULT_SETTINGS.temperature, in hundredths.
DefaultTemperature == 30

KeyValid == <<"s","k","-","1">>

KeyBlank == <<" ">>

ApiKeys == {<<>>, KeyBlank, KeyValid}

\* DEFAULT_SETTINGS' model of provider p.
DefaultModel(p) ==
  CASE p = "openai" -> <<"g","p","t","-","5","-","m","i","n","i">>
    [] p = "anthropic" -> <<"c","l","a","u","d","e","-","h","a","i","k","u","-","4","-","5">>
    [] p = "google" -> <<"g","e","m","i","n","i","-","3","-","f","l","a","s","h","-","p","r","e","v","i","e","w">>

MaxLengthPlaceholder == <<"{","m","a","x","_","l","e","n","g","t","h","}">>

TitlePlaceholder == <<"{","t","i","t","l","e","}">>

CustomPrompt ==
  <<"T","i","t","l","e"," ","i","n"," ","{","m","a","x","_","l","e","n","g","t","h","}",
    " ","c","h","a","r","s"," ","m","a","x",":">>

RefinePrompt ==
  <<"S","h","o","r","t","e","n"," ","t","o"," ","{","m","a","x","_","l","e","n","g","t","h","}",
    ":"," ","\"","{","t","i","t","l","e","}","\"">>

\* The settings the store can hold when a request starts: every provider has
\* a key, only the active one has, none has, or the active one's is blank.
KeyOf(p, active, keyed) ==
  IF keyed = "all" \/ (keyed = "active" /\ p = active) THEN KeyValid
  ELSE IF keyed = "blank" /\ p = active THEN KeyBlank
  ELSE <<>>

ModelOf(p, active, hasModel) ==
  IF p = active /\ ~hasModel THEN <<>> ELSE DefaultModel(p)

InitialSettings ==
  {[aiProvider |-> p,
    openAiApiKey |-> KeyOf("openai", p, keyed),
    anthropicApiKey |-> KeyOf("anthropic", p, keyed),
    googleApiKey |-> KeyOf("google", p, keyed),
    openAiModel |-> ModelOf("openai", p, hasModel),
    anthropicModel |-> ModelOf("anthropic", p, hasModel),
    googleModel |-> ModelOf("google", p, hasModel),
    anthropicThinkingEnabled |-> FALSE,
    lowerCaseTitles |-> lc, removeForbiddenChars |-> rf,
    customPrompt |-> CustomPrompt, refinePrompt |-> RefinePrompt,
    temperature |-> DefaultTemperature,
    maxTitleLength |-> TitleLimit, maxContentLength |-> ContentLimit] :
     p \in Providers, keyed \in {"all", "active", "none", "blank"}, hasModel \in BOOLEAN,
     lc \in BOOLEAN, rf \in BOOLEAN}

\* The documents titles are asked for.
NoteContents == {<<"S","o","m","e"," ","l","o","n","g"," ","n","o","t","e">>}

LabelledTitle ==
  <<"<","t","h","i","n","k",">","x","<","/","t","h","i","n","k",">","\n",
    "T","i","t","l","e",":"," ","\"","Q",":"," ","a","?","\"">>

LongTitle == <<"A"," ","V","e","r","y"," ","L","o","n","g"," ","T","i","t","l","e">>

DollarTitle == <<"S","a","v","e"," ","$","$"," ","o","n"," ","T","a","x","e","s">>

\* A title whose tenth character is a space.
SpacedTitle == <<"P","l","a","n","s"," ","f","o","r"," ","a"," ","t","r","i","p">>

\* What the transport can answer to a request.
Responses ==
  {HttpResponse(200, <<>>, TRUE, <<TextBlock(LabelledTitle)>>, "STOP"),
   HttpResponse(200, <<>>, TRUE, <<TextBlock(LongTitle)>>, "STOP"),
   HttpResponse(200, <<>>, TRUE, <<TextBlock(DollarTitle)>>, "STOP"),
   HttpResponse(200, <<>>, TRUE, <<TextBlock(SpacedTitle)>>, "STOP"),
   HttpResponse(200, <<>>, TRUE, <<>>, "STOP"),
   HttpResponse(200, <<>>, FALSE, <<>>, "SAFETY"),
   HttpResponse(500, <<"d","o","w","n">>, FALSE, <<>>, ""),
   NetworkFailure(<<"n","e","t",":",":","E","R","R","_","F","A","I","L","E","D">>)}

\* The prompts other features hand to makeAICall.
DirectPrompts == {<<"S","u","m","m","a","r","i","z","e",":">>}


(***************************************************************************)
(* Validation Service: ValidationService (validation.ts)                   *)
(***************************************************************************)

\* VALIDATION_RULES, TITLE_CONFIG and MODEL_CONFIG.  Numbers are kept in
\* hundredths, so that 0.3 is 30 and a whole number is a multiple of 100.
API_KEY_MIN_LENGTH == 10

API_KEY_MAX_LENGTH == 200

MODEL_NAME_MIN_LENGTH == 1

MODEL_NAME_MAX_LENGTH == 100

PROMPT_MIN_LENGTH == 10

PROMPT_MAX_LENGTH == 1000

MIN_MAX_LENGTH == 10

MAX_MAX_LENGTH == 500

MIN_MAX_CONTENT_LENGTH == 100

MAX_MAX_CONTENT_LENGTH == 10000

MIN_TEMPERATURE == 0

MAX_TEMPERATURE == 100

Hundredths(n) == n * 100

\* The JavaScript values handed to the validators.
JsString(s) == [type |-> "string", str |-> s, num |-> 0]

JsNumber(n) == [type |-> "number", str |-> <<>>, num |-> n]

JsNaN == [type |-> "NaN", str |-> <<>>, num |-> 0]

JsUndefined == [type |-> "undefined", str |-> <<>>, num |-> 0]

\* !v is false
Truthy(v) ==
  \/ v.type = "string" /\ v.str # <<>>
  \/ v.type = "number" /\ v.num # 0

\* typeof v === 'number' && !isNaN(v) && Number.isInteger(v)
IsWholeNumber(v) == v.type = "number" /\ v.num % 100 = 0

\* { valid: true, errors: [], warnings: [] }
FreshResult == [valid |-> TRUE, errors |-> <<>>, warnings |-> <<>>, threw |-> ""]

\* A warning that makes the result invalid.
WarnAsError(r, message) ==
  [r EXCEPT !.valid = FALSE, !.warnings = Append(@, message)]

\* result.valid = false; result.errors.push(message)
Fail(r, message) == [r EXCEPT !.valid = FALSE, !.errors = Append(@, message)]

\* result.warnings.push(message)
Warn(r, message) == [r EXCEPT !.warnings = Append(@, message)]

FailIf(r, condition, message) == IF condition THEN Fail(r, message) ELSE r

WarnIf(r, condition, message) == IF condition THEN Warn(r, message) ELSE r

\* The length bound tested on the untrimmed key.
validateApiKeyUntrimmed(apiKey, provider) ==
  IF ~Truthy(apiKey) \/ apiKey.type # "string"
  THEN Fail(FreshResult, "API key is required")
  ELSE
    LET key == apiKey.str
        r1 == FailIf(FreshResult, Len(key) < API_KEY_MIN_LENGTH,
                     "API key must be at least 10 characters long")
    IN FailIf(r1, Len(key) > API_KEY_MAX_LENGTH,
              "API key must be no more than 200 characters long")

validateApiKey(apiKey, provider) ==
  IF ~Truthy(apiKey) \/ apiKey.type # "string"
  THEN Fail(FreshResult, "API key is required")
  ELSE
    LET trimmedKey == Trim(apiKey.str)
    IN IF Len(trimmedKey) = 0
       THEN Fail(FreshResult, "API key cannot be empty")
       ELSE
         LET r1 == FailIf(FreshResult, Len(trimmedKey) < API_KEY_MIN_LENGTH,
                          "API key must be at least 10 characters long")
             r2 == FailIf(r1, Len(trimmedKey) > API_KEY_MAX_LENGTH,
                          "API key must be no more than 200 characters long")
         IN CASE provider = "openai" ->
                   WarnIf(r2, ~StartsWith(trimmedKey, <<"s","k","-">>),
                          "OpenAI API keys typically start with \"sk-\"")
              [] provider = "anthropic" ->
                   WarnIf(r2, ~StartsWith(trimmedKey, <<"s","k","-","a","n","t","-">>),
                          "Anthropic API keys typically start with \"sk-ant-\"")
              [] provider = "google" ->
                   WarnIf(r2, Len(trimmedKey) < 20,
                          "Google API keys are typically longer than 20 characters")
              [] OTHER -> r2

validateModelName(modelName, provider) ==
  IF ~Truthy(modelName) \/ modelName.type # "string"
  THEN Fail(FreshResult, "Model name is required")
  ELSE
    LET trimmedName == Trim(modelName.str)
    IN IF Len(trimmedName) = 0
       THEN Fail(FreshResult, "Model name cannot be empty")
       ELSE
         LET r1 == FailIf(FreshResult, Len(trimmedName) < MODEL_NAME_MIN_LENGTH,
                          "Model name must be at least 1 character long")
             r2 == FailIf(r1, Len(trimmedName) > MODEL_NAME_MAX_LENGTH,
                          "Model name must be no more than 100 characters long")
         IN CASE provider = "openai" ->
                   WarnIf(r2, ~Includes(trimmedName, <<"g","p","t">>),
                          "OpenAI models typically contain \"gpt\" in the name")
              [] provider = "anthropic" ->
                   WarnIf(r2, ~Includes(trimmedName, <<"c","l","a","u","d","e">>),
                          "Anthropic models typically contain \"claude\" in the name")
              [] provider = "google" ->
                   WarnIf(r2, ~Includes(trimmedName, <<"g","e","m","i","n","i">>),
                          "Google models typically contain \"gemini\" in the name")
              [] OTHER -> r2

\* validatePrompt returning at the first missing placeholder.
validatePromptFirstMissing(prompt, isRefinementPrompt) ==
  IF ~Truthy(prompt) \/ prompt.type # "string"
  THEN Fail(FreshResult, "Prompt is required")
  ELSE
    LET trimmedPrompt == Trim(prompt.str)
    IN IF Len(trimmedPrompt) = 0
       THEN Fail(FreshResult, "Prompt cannot be empty")
       ELSE
         LET r1 == FailIf(FreshResult, Len(trimmedPrompt) < PROMPT_MIN_LENGTH,
                          "Prompt must be at least 10 characters long")
             r2 == FailIf(r1, Len(trimmedPrompt) > PROMPT_MAX_LENGTH,
                          "Prompt must be no more than 1000 characters long")
         IN IF ~isRefinementPrompt
            THEN FailIf(r2, ~Includes(trimmedPrompt, MaxLengthPlaceholder),
                        "Prompt must contain placeholder: {max_length}")
            ELSE IF ~Includes(trimmedPrompt, MaxLengthPlaceholder)
            THEN Fail(r2, "Refinement prompt must contain placeholder: {max_length}")
            ELSE FailIf(r2, ~Includes(trimmedPrompt, TitlePlaceholder),
                        "Refinement prompt must contain placeholder: {title}")

\* VALIDATION_RULES.PROMPT and REFINE_PROMPT have the same length bounds.
validatePrompt(prompt, isRefinementPrompt) ==
  IF ~Truthy(prompt) \/ prompt.type # "string"
  THEN Fail(FreshResult, "Prompt is required")
  ELSE
    LET trimmedPrompt == Trim(prompt.str)
    IN IF Len(trimmedPrompt) = 0
       THEN Fail(FreshResult, "Prompt cannot be empty")
       ELSE
         LET r1 == FailIf(FreshResult, Len(trimmedPrompt) < PROMPT_MIN_LENGTH,
                          "Prompt must be at least 10 characters long")
             r2 == FailIf(r1, Len(trimmedPrompt) > PROMPT_MAX_LENGTH,
                          "Prompt must be no more than 1000 characters long")
         IN IF isRefinementPrompt
            THEN
              LET r3 == FailIf(r2, ~Includes(trimmedPrompt, MaxLengthPlaceholder),
                               "Refinement prompt must contain placeholder: {max_length}")
              IN FailIf(r3, ~Includes(trimmedPrompt, TitlePlaceholder),
                        "Refinement prompt must contain placeholder: {title}")
            ELSE FailIf(r2, ~Includes(trimmedPrompt, MaxLengthPlaceholder),
                        "Prompt must contain placeholder: {max_length}")

validateTemperature(temperature) ==
  IF temperature.type # "number"
  THEN Fail(FreshResult, "Temperature must be a number")
  ELSE
    LET r1 == FailIf(FreshResult, temperature.num < MIN_TEMPERATURE,
                     "Temperature must be at least 0")
        r2 == FailIf(r1, temperature.num > MAX_TEMPERATURE,
                     "Temperature must be no more than 1")
    IN IF temperature.num = 0
       THEN Warn(r2, "Temperature of 0 will produce very predictable results")
       ELSE WarnIf(r2, temperature.num >= 90,
                   "High temperature values may produce inconsistent results")

validateMaxTitleLength(length) ==
  IF ~IsWholeNumber(length)
  THEN Fail(FreshResult, "Max title length must be a whole number")
  ELSE
    LET r1 == FailIf(FreshResult, length.num < Hundredths(MIN_MAX_LENGTH),
                     "Max title length must be at least 10")
        r2 == FailIf(r1, length.num > Hundredths(MAX_MAX_LENGTH),
                     "Max title length must be no more than 500")
    IN IF length.num < Hundredths(30)
       THEN Warn(r2, "Short titles may not be descriptive enough")
       ELSE WarnIf(r2, length.num > Hundredths(100),
                   "Long titles may not be suitable for all file systems")

validateMaxContentLength(length) ==
  IF ~IsWholeNumber(length)
  THEN Fail(FreshResult, "Max content length must be a whole number")
  ELSE
    LET r1 == FailIf(FreshResult, length.num < Hundredths(MIN_MAX_CONTENT_LENGTH),
                     "Max content length must be at least 100")
        r2 == FailIf(r1, length.num > Hundredths(MAX_MAX_CONTENT_LENGTH),
                     "Max content length must be no more than 10000")
    IN IF length.num < Hundredths(500)
       THEN Warn(r2, "Very short content may not provide enough context for good titles")
       ELSE WarnIf(r2, length.num > Hundredths(5000),
                   "Very long content may increase API costs significantly")

\* provider.toUpperCase()
ProviderUpperCase(provider) ==
  CASE provider = "openai" -> "OPENAI"
    [] provider = "anthropic" -> "ANTHROPIC"
    [] provider = "google" -> "GOOGLE"
    [] OTHER -> "?"

\* A field-name lookup: the field, or the TitleGeneratorError it throws.
FieldFound(field) == [ok |-> TRUE, field |-> field, kind |-> ""]

FieldUnknown == [ok |-> FALSE, field |-> "", kind |-> "UNKNOWN_PROVIDER"]

\* The lookup that answers with OpenAI's field whatever the provider.
getApiKeyFieldOfOpenAi(provider) == FieldFound("openAiApiKey")

getApiKeyField(provider) ==
  CASE provider = "openai" -> FieldFound("openAiApiKey")
    [] provider = "anthropic" -> FieldFound("anthropicApiKey")
    [] provider = "google" -> FieldFound("googleApiKey")
    [] OTHER -> FieldUnknown

getModelField(provider) ==
  CASE provider = "openai" -> FieldFound("openAiModel")
    [] provider = "anthropic" -> FieldFound("anthropicModel")
    [] provider = "google" -> FieldFound("googleModel")
    [] OTHER -> FieldUnknown

\* result.errors.push(...v.errors); result.warnings.push(...v.warnings);
\* if (!v.valid) result.valid = false
Merge(r, v) ==
  [r EXCEPT !.valid = IF ~v.valid THEN FALSE ELSE @,
            !.errors = @ \o v.errors,
            !.warnings = @ \o v.warnings]

\* The validations of validateSettings after the key and the model.
SettingsRest(r, s) ==
  LET r3 == Merge(r, validatePrompt(s.customPrompt, FALSE))
      r4 == Merge(r3, validatePrompt(s.refinePrompt, TRUE))
      r5 == Merge(r4, validateTemperature(s.temperature))
      r6 == Merge(r5, validateMaxTitleLength(s.maxTitleLength))
  IN Merge(r6, validateMaxContentLength(s.maxContentLength))

validateSettings(s) ==
  LET provider == s.aiProvider
      apiKeyField == getApiKeyField(provider)
      modelField == getModelField(provider)
  IN IF ~apiKeyField.ok THEN [FreshResult EXCEPT !.threw = apiKeyField.kind]
     ELSE
       LET apiKey == s[apiKeyField.field]
           r1 == IF Truthy(apiKey)
                 THEN Merge(FreshResult, validateApiKey(apiKey, provider))
                 ELSE Fail(FreshResult, ProviderUpperCase(provider) \o " API key is required")
       IN IF ~modelField.ok THEN [FreshResult EXCEPT !.threw = modelField.kind]
          ELSE
            LET model == s[modelField.field]
                r2 == IF Truthy(model)
                      THEN Merge(r1, validateModelName(model, provider))
                      ELSE Fail(r1, ProviderUpperCase(provider) \o " model is required")
            IN SettingsRest(r2, s)

\* A parsed response body: whether it is there at all, whether it holds the
\* provider's list (choices, content, candidates) and the list.  An entry is a
\* block (message.content or text) or, for Google, a candidate with its parts.
ResponseBody(present, hasList, list) ==
  [present |-> present, hasList |-> hasList, list |-> list]

Candidate(hasParts, parts) ==
  [type |-> "candidate", hasText |-> FALSE, text |-> <<>>, thought |-> FALSE,
   hasParts |-> hasParts, parts |-> parts]

Block(b) ==
  [type |-> b.type, hasText |-> b.hasText, text |-> b.text, thought |-> b.thought,
   hasParts |-> FALSE, parts |-> <<>>]

validateApiResponse(response, provider) ==
  IF ~response.present THEN Fail(FreshResult, "API response is empty")
  ELSE
    LET noList == ~response.hasList \/ response.list = <<>>
        first == response.list[1]
    IN CASE provider = "openai" ->
              IF noList THEN Fail(FreshResult, "Invalid OpenAI response format")
              ELSE FailIf(FreshResult, ~first.hasText \/ first.text = <<>>,
                          "OpenAI response missing content")
         [] provider = "anthropic" ->
              IF noList THEN Fail(FreshResult, "Invalid Anthropic response format")
              ELSE FailIf(FreshResult, ~first.hasText \/ first.text = <<>>,
                          "Anthropic response missing text")
         [] provider = "google" ->
              IF noList THEN Fail(FreshResult, "Invalid Google response format")
              ELSE FailIf(FreshResult,
                          \/ ~first.hasParts
                          \/ ~\E k \in 1..Len(first.parts) :
                                /\ first.parts[k].hasText
                                /\ first.parts[k].text # <<>>
                                /\ ~first.parts[k].thought,
                          "Google response missing text")
         [] OTHER -> FreshResult

\* TITLE_CONFIG.DEFAULT_PROMPT and DEFAULT_REFINE_PROMPT.
DEFAULT_PROMPT ==
  <<"C","r","e","a","t","e"," ","a"," ","c","o","n","c","i","s","e"," ","t",
    "i","t","l","e"," ","f","o","r"," ","t","h","i","s"," ","t","e","x","t",
    "."," ","R","e","s","p","o","n","d"," ","w","i","t","h"," ","O","N","L",
    "Y"," ","t","h","e"," ","t","i","t","l","e"," ","-"," ","n","o"," ","e",
    "x","p","l","a","n","a","t","i","o","n","s",","," ","q","u","o","t","e",
    "s",","," ","o","r"," ","e","x","t","r","a"," ","t","e","x","t","."," ",
    "M","a","x","i","m","u","m"," ","{","m","a","x","_","l","e","n","g","t",
    "h","}"," ","c","h","a","r","a","c","t","e","r","s",".">>

DEFAULT_REFINE_PROMPT ==
  <<"M","a","k","e"," ","t","h","i","s"," ","t","i","t","l","e"," ","s","h",
    "o","r","t","e","r"," ","(","u","n","d","e","r"," ","{","m","a","x","_",
    "l","e","n","g","t","h","}"," ","c","h","a","r","a","c","t","e","r","s",
    ")",":"," ","\"","{","t","i","t","l","e","}","\"","."," ","R","e","s",
    "p","o","n","d"," ","w","i","t","h"," ","O","N","L","Y"," ","t","h","e",
    " ","n","e","w"," ","t","i","t","l","e",".">>

\* The inputs the validators are tried on.
Repeat(c, n) == [i \in 1..n |-> c]

KeyOfLength(n) == <<"s","k","-">> \o Repeat("x", n - 3)

Spaced(s) == <<" ">> \o s \o <<" ", "\n">>

KeyInputs ==
  {JsUndefined, JsNumber(4200), JsString(<<>>), JsString(<<" "," ">>)}
  \union {JsString(KeyOfLength(n)) :
            n \in {API_KEY_MIN_LENGTH - 1, API_KEY_MIN_LENGTH, API_KEY_MIN_LENGTH + 10,
                   API_KEY_MAX_LENGTH, API_KEY_MAX_LENGTH + 1}}
  \union {JsString(Spaced(KeyOfLength(n))) :
            n \in {API_KEY_MIN_LENGTH - 1, API_KEY_MIN_LENGTH,
                   API_KEY_MAX_LENGTH, API_KEY_MAX_LENGTH + 1}}

ModelInputs ==
  {JsUndefined, JsString(<<>>), JsString(<<" ">>)}
  \union {JsString(DefaultModel(p)) : p \in Providers}
  \union {JsString(Repeat("m", n)) :
            n \in {MODEL_NAME_MIN_LENGTH, MODEL_NAME_MAX_LENGTH, MODEL_NAME_MAX_LENGTH + 1}}

\* A prompt of n characters ending with the placeholders asked for.
PaddedPrompt(hasMaxLength, hasTitle, n) ==
  LET tail == (IF hasMaxLength THEN MaxLengthPlaceholder ELSE <<>>)
              \o (IF hasTitle THEN TitlePlaceholder ELSE <<>>)
  IN Repeat("a", n - Len(tail)) \o tail

PromptInputs ==
  {JsUndefined, JsString(<<>>), JsString(<<" ","\n"," ">>),
   JsString(DEFAULT_PROMPT), JsString(DEFAULT_REFINE_PROMPT),
   JsString(Spaced(PaddedPrompt(TRUE, TRUE, PROMPT_MAX_LENGTH))),
   JsString(Spaced(PaddedPrompt(TRUE, TRUE, PROMPT_MAX_LENGTH + 1)))}
  \union {JsString(PaddedPrompt(m, t, n)) :
            m \in BOOLEAN, t \in BOOLEAN,
            n \in {PROMPT_MIN_LENGTH + 9, PROMPT_MAX_LENGTH, PROMPT_MAX_LENGTH + 1}}
  \union {JsString(PaddedPrompt(FALSE, t, n)) :
            t \in BOOLEAN, n \in {PROMPT_MIN_LENGTH - 1, PROMPT_MIN_LENGTH}}

TemperatureInputs ==
  {JsUndefined, JsNaN}
  \union {JsNumber(n) : n \in {MIN_TEMPERATURE - 1, MIN_TEMPERATURE, DefaultTemperature,
                               89, 90, MAX_TEMPERATURE, MAX_TEMPERATURE + 1}}

\* Whole numbers around the bounds lo and hi, and a number that is not whole.
LengthInputs(lo, hi, usual) ==
  {JsUndefined, JsNaN, JsNumber(Hundredths(lo) + 50)}
  \union {JsNumber(Hundredths(n)) : n \in {lo - 1, lo, lo + 1, usual, hi - 1, hi, hi + 1}}

\* Settings for validateSettings.  Each field is right or wrong in one way;
\* the fields of the providers that are not active are all empty or all
\* filled with values no validator accepts.
SettingsInputs ==
  {[aiProvider |-> p,
    openAiApiKey |-> IF p = "openai" THEN k ELSE JsString(IF junk THEN <<"?">> ELSE <<>>),
    anthropicApiKey |-> IF p = "anthropic" THEN k ELSE JsString(IF junk THEN <<"?">> ELSE <<>>),
    googleApiKey |-> IF p = "google" THEN k ELSE JsString(IF junk THEN <<"?">> ELSE <<>>),
    openAiModel |-> IF p = "openai" THEN m ELSE JsString(IF junk THEN <<" ">> ELSE <<>>),
    anthropicModel |-> IF p = "anthropic" THEN m ELSE JsString(IF junk THEN <<" ">> ELSE <<>>),
    googleModel |-> IF p = "google" THEN m ELSE JsString(IF junk THEN <<" ">> ELSE <<>>),
    customPrompt |-> cp, refinePrompt |-> rp,
    temperature |-> t, maxTitleLength |-> tl, maxContentLength |-> cl] :
     p \in Providers \union {"mistral"},
     k \in {JsString(<<>>), JsString(KeyOfLength(API_KEY_MIN_LENGTH - 1)),
            JsString(KeyOfLength(API_KEY_MIN_LENGTH))},
     m \in {JsString(<<>>), JsString(<<"g","p","t","-","5","-","m","i","n","i">>)},
     junk \in BOOLEAN,
     cp \in {JsString(DEFAULT_PROMPT), JsString(PaddedPrompt(FALSE, FALSE, 40))},
     rp \in {JsString(DEFAULT_REFINE_PROMPT), JsString(PaddedPrompt(TRUE, FALSE, 40))},
     t \in {JsNumber(DefaultTemperature), JsNumber(MAX_TEMPERATURE + 50)},
     tl \in {JsNumber(Hundredths(60)), JsNumber(Hundredths(MIN_MAX_LENGTH - 1))},
     cl \in {JsNumber(Hundredths(2000)), JsNumber(Hundredths(MAX_MAX_CONTENT_LENGTH + 1))}}

ResponseBodyInputs ==
  {ResponseBody(FALSE, FALSE, <<>>),
   ResponseBody(TRUE, FALSE, <<>>),
   ResponseBody(TRUE, TRUE, <<>>),
   ResponseBody(TRUE, TRUE, <<Block(TextBlock(LongTitle))>>),
   ResponseBody(TRUE, TRUE, <<Block(TextBlock(<<>>))>>),
   ResponseBody(TRUE, TRUE, <<Block(ThoughtBlock(LongTitle)), Block(TextBlock(LongTitle))>>),
   ResponseBody(TRUE, TRUE, <<Candidate(FALSE, <<>>)>>),
   ResponseBody(TRUE, TRUE, <<Candidate(TRUE, <<ThoughtBlock(LongTitle)>>)>>),
   ResponseBody(TRUE, TRUE,
                <<Candidate(TRUE, <<ThoughtBlock(LongTitle), TextBlock(LongTitle)>>)>>)}

\* One call of a validator: the operation, its arguments and what it returned.
NoValidation ==
  [op |-> "none", value |-> JsUndefined, provider |-> "", isRefinementPrompt |-> FALSE,
   settings |-> <<>>, response |-> <<>>, result |-> FreshResult]

Validated(op, result) == [NoValidation EXCEPT !.op = op, !.result = result]

\* One call of a text function (the cleaner, the sanitizer): its input, a
\* JavaScript value, and the string it returned.
NotApplied == [fn |-> "none", input |-> JsUndefined, output |-> <<>>]

(***************************************************************************)
(* Generation Orchestrator: AIService.generateTitle, makeAICall            *)
(***************************************************************************)

VARIABLES
  store,        \* the plugin's settings, as getSettings() returns them
  pc,           \* "idle" (no request yet), "awaiting" a provider call,
                \* "returned" or "rejected"
  entry,        \* the entry point of the request: "generateTitle", "makeAICall"
  settings,     \* generateTitle's local settings: what getSettings() gave
                \* when the request started
  noteContent,  \* the document handed to generateTitle
  attempt,      \* the loop counter
  title,        \* the loop's current title
  inflight,     \* the requests handed to requestUrl and not yet answered
  calls,        \* every callAI of the request, in order
  notices,      \* the notices of the request, in order
  result,       \* what the entry point returned
  edits,        \* the edits made in the settings tab
  answers,      \* what requestUrl settled with, call by call
  requests,     \* the generateTitle calls of a batch running side by side
  validation,   \* the last call of a validator and what it returned
  applied,      \* the last call of a text function: its input and its output
  editor        \* the API-key editor of the settings tab

\* Everything but the validation record.
mainVars ==
  <<store, pc, entry, settings, noteContent, attempt, title, inflight, calls,
    notices, result, edits, answers, requests>>

vars ==
  <<store, pc, entry, settings, noteContent, attempt, title, inflight, calls,
    notices, result, edits, answers, requests, validation, applied, editor>>

maxAttempts == 3

ActiveApiKey(st) ==
  CASE st.aiProvider = "openai" -> st.openAiApiKey
    [] st.aiProvider = "anthropic" -> st.anthropicApiKey
    [] st.aiProvider = "google" -> st.googleApiKey
    [] OTHER -> <<>>

ActiveModel(st) ==
  CASE st.aiProvider = "openai" -> st.openAiModel
    [] st.aiProvider = "anthropic" -> st.anthropicModel
    [] st.aiProvider = "google" -> st.googleModel
    [] OTHER -> <<>>

\* The API-key editor as renderProviderSettings builds it over the settings
\* st: initialValue and currentValue are the stored key, the text field shows
\* it, both buttons are disabled and no save is under way.
EditorOf(st) ==
  [initialValue |-> ActiveApiKey(st), currentValue |-> ActiveApiKey(st),
   text |-> ActiveApiKey(st), cancelDisabled |-> TRUE, okDisabled |-> TRUE,
   saving |-> 0]

\* The notice isConfigurationValid shows, none when the configuration is valid.
ConfigurationNotices(st) ==
  IF st.aiProvider \notin Providers
  THEN <<Notice("config", st.aiProvider, "provider", <<>>)>>
  ELSE IF Trim(ActiveApiKey(st)) = <<>>
  THEN <<Notice("config", st.aiProvider, "apiKey", <<>>)>>
  ELSE IF ActiveModel(st) = <<>>
  THEN <<Notice("config", st.aiProvider, "model", <<>>)>>
  ELSE <<>>

\* isConfigurationValid testing the key as the adapters do, untrimmed.
isConfigurationValidUntrimmed(st) ==
  /\ st.aiProvider \in Providers
  /\ ActiveApiKey(st) # <<>>
  /\ ActiveModel(st) # <<>>

isConfigurationValid(st) == ConfigurationNotices(st) = <<>>

\* The notice of generateTitle's catch block, by the error's message.
CatchNotice(message, st) ==
  IF Includes(message, <<"A","P","I"," ","k","e","y"," ","i","s"," ","n","o","t"," ","s","e","t">>)
  THEN Notice("missingKey", st.aiProvider, "", message)
  ELSE IF Includes(message, <<"A","P","I"," ","e","r","r","o","r">>)
  THEN Notice("apiError", st.aiProvider, "", message)
  ELSE Notice("other", st.aiProvider, "", message)

\* The content without the slice.
ContentSliceWhole(nc, st) == nc

\* noteContent.slice(0, settings.maxContentLength)
ContentSlice(nc, st) == Slice0(nc, st.maxContentLength)

\* settings.customPrompt.replace('{max_length}', settings.maxTitleLength.toString())
InitialPromptText(st) ==
  Replace(st.customPrompt, MaxLengthPlaceholder, NumberToString(st.maxTitleLength))

\* settings.refinePrompt.replace('{max_length}', ...).replace('{title}', title)
RefinePromptText(st, previous) ==
  Replace(Replace(st.refinePrompt, MaxLengthPlaceholder,
                  NumberToString(st.maxTitleLength)),
          TitlePlaceholder, previous)

\* The test without its non-empty half.
TitleIsValidOrEmpty(t, st) == Len(t) <= st.maxTitleLength

\* The test that breaks the loop.
TitleIsValid(t, st) == Len(t) > 0 /\ Len(t) <= st.maxTitleLength

\* The loop with its bound off by one.
LoopContinuesOneMore(k, t, st) == ~TitleIsValid(t, st) /\ k <= maxAttempts

\* Whether the loop goes on to another attempt after attempt k gave title t.
LoopContinues(k, t, st) == ~TitleIsValid(t, st) /\ k < maxAttempts

\* The final processing without the safeguard truncation.
FinalTitleUntruncated(t, st) ==
  LET lowered == IF st.lowerCaseTitles THEN ToLowerCase(t) ELSE t
  IN IF st.removeForbiddenChars THEN sanitizeFilename(lowered) ELSE lowered

\* The final processing of the loop's title.
FinalTitle(t, st) ==
  LET lowered == IF st.lowerCaseTitles THEN ToLowerCase(t) ELSE t
      processedTitle ==
        IF st.removeForbiddenChars THEN sanitizeFilename(lowered) ELSE lowered
  IN truncateTitle(processedTitle, st.maxTitleLength)

\* The record of one callAI: its arguments, what the store held when it was
\* made, the request it handed to requestUrl (none when it threw first), how
\* the error it threw before any request (none when it made one), how it
\* ended and the cleaned title generateTitle got from it.
CallRecord(k, prompt, content, st, started, status) ==
  [attempt |-> k, prompt |-> prompt, content |-> content,
   storeProvider |-> st.aiProvider, storeApiKey |-> ActiveApiKey(st),
   storeModel |-> ActiveModel(st), storeTemperature |-> st.temperature,
   request |-> started.request, error |-> started.message, status |-> status,
   title |-> <<>>]

\* The iteration with callAI reading generateTitle's own settings.
BeginAttemptFromSnapshot(snap, k, prompt, content, log, shown, pending) ==
  LET started == callAI(snap, prompt, content)
  IN /\ attempt' = k
     /\ IF started.ok
        THEN /\ calls' = Append(log, CallRecord(k, prompt, content, store, started, "pending"))
             /\ inflight' = pending \union {[attempt |-> k, request |-> started.request[1]]}
             /\ pc' = "awaiting"
             /\ notices' = shown
             /\ result' = <<>>
        ELSE /\ calls' = Append(log, CallRecord(k, prompt, content, store, started, "threw"))
             /\ inflight' = pending
             /\ pc' = "returned"
             /\ notices' = Append(shown, CatchNotice(started.message, snap))
             /\ result' = <<>>

\* One iteration of generateTitle's loop up to its await: callAI reads the
\* store as it is now; an error it throws is caught, notified and ends the
\* request with ''.
BeginAttempt(snap, k, prompt, content, log, shown, pending) ==
  LET started == callAI(store, prompt, content)
  IN /\ attempt' = k
     /\ IF started.ok
        THEN /\ calls' = Append(log, CallRecord(k, prompt, content, store, started, "pending"))
             /\ inflight' = pending \union {[attempt |-> k, request |-> started.request[1]]}
             /\ pc' = "awaiting"
             /\ notices' = shown
             /\ result' = <<>>
        ELSE /\ calls' = Append(log, CallRecord(k, prompt, content, store, started, "threw"))
             /\ inflight' = pending
             /\ pc' = "returned"
             /\ notices' = Append(shown, CatchNotice(started.message, snap))
             /\ result' = <<>>

Init ==
  /\ store \in InitialSettings
  /\ pc = "idle"
  /\ entry = "none"
  /\ settings = store
  /\ noteContent = <<>>
  /\ attempt = 0
  /\ title = <<>>
  /\ inflight = {}
  /\ calls = <<>>
  /\ notices = <<>>
  /\ result = <<>>
  /\ edits = 0
  /\ answers = <<>>
  /\ requests = <<>>
  /\ validation = NoValidation
  /\ applied = NotApplied
  /\ editor = EditorOf(store)

\* generateTitle(nc), from its call to its first await or its return.
GenerateTitle(nc) ==
  /\ pc = "idle"
  /\ entry' = "generateTitle"
  /\ settings' = store
  /\ noteContent' = nc
  /\ title' = <<>>
  /\ IF ~isConfigurationValid(store)
     THEN /\ pc' = "returned"
          /\ result' = <<>>
          /\ notices' = ConfigurationNotices(store)
          /\ calls' = <<>>
          /\ attempt' = 0
          /\ inflight' = {}
     ELSE BeginAttempt(store, 1, InitialPromptText(store), ContentSlice(nc, store),
                       <<>>, <<>>, {})
  /\ UNCHANGED <<store, edits, answers, requests, validation, applied, editor>>

\* makeAICall(prompt, content), from its call to callAI's await or its throw.
MakeAICall(prompt, content) ==
  /\ pc = "idle"
  /\ entry' = "makeAICall"
  /\ settings' = store
  /\ noteContent' = content
  /\ title' = <<>>
  /\ attempt' = 0
  /\ notices' = <<>>
  /\ result' = <<>>
  /\ LET started == callAI(store, prompt, content)
     IN IF started.ok
        THEN /\ calls' = <<CallRecord(0, prompt, content, store, started, "pending")>>
             /\ inflight' = {[attempt |-> 0, request |-> started.request[1]]}
             /\ pc' = "awaiting"
        ELSE /\ calls' = <<CallRecord(0, prompt, content, store, started, "threw")>>
             /\ inflight' = {}
             /\ pc' = "rejected"
  /\ UNCHANGED <<store, edits, answers, requests, validation, applied, editor>>

\* The log with its last call's status and cleaned title set.
Settled(log, status, cleaned) ==
  [log EXCEPT ![Len(log)].status = status, ![Len(log)].title = cleaned]

\* generateTitle without its catch block: the error goes to the caller.
CatchGenerateTitleRethrow(f, answer) ==
  /\ calls' = Settled(calls, "failed", <<>>)
  /\ inflight' = inflight \ {f}
  /\ notices' = notices
  /\ result' = <<>>
  /\ pc' = "rejected"
  /\ UNCHANGED <<title, attempt>>

\* generateTitle catching the error inside the loop and trying again.
CatchGenerateTitleRetry(f, answer) ==
  /\ title' = title
  /\ IF attempt < maxAttempts
     THEN BeginAttempt(settings, attempt + 1, InitialPromptText(settings),
                       ContentSlice(noteContent, settings),
                       Settled(calls, "failed", <<>>), notices, inflight \ {f})
     ELSE /\ calls' = Settled(calls, "failed", <<>>)
          /\ inflight' = inflight \ {f}
          /\ notices' = Append(notices, CatchNotice(answer.message, settings))
          /\ result' = <<>>
          /\ pc' = "returned"
          /\ UNCHANGED attempt

\* generateTitle's catch block: the error is notified and '' returned.
CatchGenerateTitle(f, answer) ==
  /\ calls' = Settled(calls, "failed", <<>>)
  /\ inflight' = inflight \ {f}
  /\ notices' = Append(notices, CatchNotice(answer.message, settings))
  /\ result' = <<>>
  /\ pc' = "returned"
  /\ UNCHANGED <<title, attempt>>

\* generateTitle never resumed on the answer: the request is gone and the
\* call stays suspended.
ResumeGenerateTitleLost(f, response) ==
  /\ inflight' = inflight \ {f}
  /\ UNCHANGED <<calls, notices, result, pc, title, attempt>>

\* generateTitle resumes on the answer to its request: the rest of the
\* adapter, the cleaning, the test of the title, and then the next attempt up
\* to its await, or the final processing and the return.
ResumeGenerateTitle(f, response) ==
  LET answer == adapterText(f.request.provider, response)
      cleaned == cleanAIResponse(answer.text)
      shown == notices \o answer.notices
  IN IF ~answer.ok
     THEN CatchGenerateTitle(f, answer)
     ELSE /\ title' = cleaned
          /\ IF LoopContinues(attempt, cleaned, settings)
             THEN BeginAttempt(settings, attempt + 1,
                               RefinePromptText(settings, cleaned), <<>>,
                               Settled(calls, "resolved", cleaned),
                               Append(shown, Notice("refining", settings.aiProvider, "", <<>>)),
                               inflight \ {f})
             ELSE /\ calls' = Settled(calls, "resolved", cleaned)
                  /\ inflight' = inflight \ {f}
                  /\ notices' = shown
                  /\ result' = FinalTitle(cleaned, settings)
                  /\ pc' = "returned"
                  /\ UNCHANGED attempt

\* makeAICall cleaning the text as generateTitle does.
ResumeMakeAICallCleaned(f, response) ==
  LET answer == adapterText(f.request.provider, response)
  IN /\ inflight' = inflight \ {f}
     /\ notices' = notices \o answer.notices
     /\ UNCHANGED <<title, attempt>>
     /\ IF answer.ok
        THEN /\ calls' = Settled(calls, "resolved", <<>>)
             /\ result' = cleanAIResponse(answer.text)
             /\ pc' = "returned"
        ELSE /\ calls' = Settled(calls, "failed", <<>>)
             /\ result' = <<>>
             /\ pc' = "rejected"

\* makeAICall resumes on the answer to its request and hands on what the
\* adapter returns or throws.
ResumeMakeAICall(f, response) ==
  LET answer == adapterText(f.request.provider, response)
  IN /\ inflight' = inflight \ {f}
     /\ notices' = notices \o answer.notices
     /\ UNCHANGED <<title, attempt>>
     /\ IF answer.ok
        THEN /\ calls' = Settled(calls, "resolved", <<>>)
             /\ result' = answer.text
             /\ pc' = "returned"
        ELSE /\ calls' = Settled(calls, "failed", <<>>)
             /\ result' = <<>>
             /\ pc' = "rejected"

\* requestUrl settles with response.
ProviderResolve(response) ==
  /\ pc = "awaiting"
  /\ \E f \in inflight :
       IF entry = "generateTitle"
       THEN ResumeGenerateTitle(f, response)
       ELSE ResumeMakeAICall(f, response)
  /\ answers' = Append(answers, response)
  /\ UNCHANGED <<store, entry, settings, noteContent, edits, requests, validation, applied, editor>>

\* The settings tab's AI Provider dropdown.  The model follows the settings
\* tab while a request is suspended: Init ranges over the earlier edits, and
\* later ones change nothing the request read.
ProviderChange(value) ==
  /\ pc = "awaiting"
  /\ edits < MaxEdits
  /\ value # store.aiProvider
  /\ store' = [store EXCEPT !.aiProvider = value]
  /\ edits' = edits + 1
  /\ UNCHANGED <<pc, entry, settings, noteContent, attempt, title, inflight,
                 calls, notices, result, answers, requests, validation, applied, editor>>

\* The settings tab's API key editor: OK stores the typed key of the active
\* provider.
ApiKeyOk(value) ==
  /\ pc = "awaiting"
  /\ edits < MaxEdits
  /\ value # ActiveApiKey(store)
  /\ store' = CASE store.aiProvider = "openai" -> [store EXCEPT !.openAiApiKey = value]
                [] store.aiProvider = "anthropic" -> [store EXCEPT !.anthropicApiKey = value]
                [] store.aiProvider = "google" -> [store EXCEPT !.googleApiKey = value]
  /\ edits' = edits + 1
  /\ UNCHANGED <<pc, entry, settings, noteContent, attempt, title, inflight,
                 calls, notices, result, answers, requests, validation, applied, editor>>

Next ==
  \/ \E nc \in NoteContents : GenerateTitle(nc)
  \/ \E p \in DirectPrompts, c \in {<<>>} \union NoteContents : MakeAICall(p, c)
  \/ \E r \in Responses : ProviderResolve(r)
  \/ \E v \in Providers : ProviderChange(v)
  \/ \E k \in ApiKeys : ApiKeyOk(k)

Spec == Init /\ [][Next]_vars

\* requestUrl settles a request.  ProviderResolve is enabled exactly while a
\* request is in flight, and its steps are the steps of Next that lengthen
\* answers.
RequestSettles ==
  /\ pc = "awaiting"
  /\ inflight # {}
  /\ \E r \in Responses : answers' = Append(answers, r)

\* Every request handed to requestUrl is settled in the end.
SpecFair == Spec /\ WF_answers(RequestSettles)

(***************************************************************************)
(* Several generateTitle calls side by side over one unchanged store       *)
(***************************************************************************)

\* How many generateTitle calls run side by side.
MaxRequests == 2

RequestIds == 1..MaxRequests

\* What the transport answers in a batch: a valid title, a too long one, a
\* failure.
BatchResponses ==
  {HttpResponse(200, <<>>, TRUE, <<TextBlock(LabelledTitle)>>, "STOP"),
   HttpResponse(200, <<>>, TRUE, <<TextBlock(LongTitle)>>, "STOP"),
   HttpResponse(500, <<"d","o","w","n">>, FALSE, <<>>, "")}

\* The locals of one generateTitle call that has not started.
IdleRequest ==
  [pc |-> "idle", noteContent |-> <<>>, attempt |-> 0, prompts |-> <<>>,
   heard |-> <<>>, result |-> <<>>]

\* One iteration of the loop of request rq up to its await: the prompt sent
\* is kept; an error callAI throws ends the request with ''.
Attempted(st, rq, k, prompt, content) ==
  LET started == callAI(st, prompt, content)
  IN IF started.ok
     THEN [rq EXCEPT !.pc = "awaiting", !.attempt = k,
                     !.prompts = Append(@, started.request[1].prompt)]
     ELSE [rq EXCEPT !.pc = "returned", !.attempt = k, !.result = <<>>]

\* generateTitle(nc) from its call to its first await or its return.
StartedRequest(st, nc) ==
  IF ~isConfigurationValid(st)
  THEN [IdleRequest EXCEPT !.pc = "returned", !.noteContent = nc]
  ELSE Attempted(st, [IdleRequest EXCEPT !.noteContent = nc], 1,
                 InitialPromptText(st), ContentSlice(nc, st))

\* generateTitle resumed on the answer to its request, to its next await or
\* its return.
ResumedRequest(st, rq, response) ==
  LET answer == adapterText(st.aiProvider, response)
      cleaned == cleanAIResponse(answer.text)
      now == [rq EXCEPT !.heard = Append(@, response)]
  IN IF ~answer.ok
     THEN [now EXCEPT !.pc = "returned", !.result = <<>>]
     ELSE IF LoopContinues(rq.attempt, cleaned, st)
     THEN Attempted(st, now, rq.attempt + 1, RefinePromptText(st, cleaned), <<>>)
     ELSE [now EXCEPT !.pc = "returned", !.result = FinalTitle(cleaned, st)]

\* The loop counter kept in one place for all the calls of the service.
AttemptOfService(rqs, i) ==
  LET all == {rqs[j].attempt : j \in DOMAIN rqs}
  IN CHOOSE a \in all : \A b \in all : b <= a

\* The loop counter of request i: a local of its own call.
AttemptOf(rqs, i) == rqs[i].attempt

\* What a generateTitle call running alone comes to on the answers rs.
RECURSIVE RunAlone(_, _, _)
RunAlone(st, nc, rs) ==
  IF rs = <<>> THEN StartedRequest(st, nc)
  ELSE ResumedRequest(st, RunAlone(st, nc, SubSeq(rs, 1, Len(rs) - 1)), rs[Len(rs)])

InitConcurrent ==
  /\ store \in InitialSettings
  /\ pc = "idle"
  /\ entry = "none"
  /\ settings = store
  /\ noteContent = <<>>
  /\ attempt = 0
  /\ title = <<>>
  /\ inflight = {}
  /\ calls = <<>>
  /\ notices = <<>>
  /\ result = <<>>
  /\ edits = 0
  /\ answers = <<>>
  /\ requests = [i \in RequestIds |-> IdleRequest]
  /\ validation = NoValidation
  /\ applied = NotApplied
  /\ editor = EditorOf(store)

\* Request i calls generateTitle(nc).
StartRequest(i, nc) ==
  /\ requests[i].pc = "idle"
  /\ requests' = [requests EXCEPT ![i] = StartedRequest(store, nc)]
  /\ UNCHANGED <<store, pc, entry, settings, noteContent, attempt, title,
                 inflight, calls, notices, result, edits, answers, validation, applied, editor>>

\* requestUrl settles the request of request i with response.
ResolveRequest(i, response) ==
  /\ requests[i].pc = "awaiting"
  /\ requests' =
       [requests EXCEPT ![i] =
          ResumedRequest(store, [requests[i] EXCEPT !.attempt = AttemptOf(requests, i)],
                         response)]
  /\ UNCHANGED <<store, pc, entry, settings, noteContent, attempt, title,
                 inflight, calls, notices, result, edits, answers, validation, applied, editor>>

NextConcurrent ==
  \/ \E i \in RequestIds, nc \in NoteContents : StartRequest(i, nc)
  \/ \E i \in RequestIds, r \in BatchResponses : ResolveRequest(i, r)

SpecConcurrent == InitConcurrent /\ [][NextConcurrent]_vars

(***************************************************************************)
(* The validators called one at a time.  The service keeps no state of its *)
(* own: each action records one call and its result.                       *)
(***************************************************************************)

InitValidation ==
  /\ store \in InitialSettings
  /\ store.aiProvider = "openai" /\ store.googleApiKey = KeyValid
  /\ store.openAiModel # <<>> /\ store.lowerCaseTitles /\ store.removeForbiddenChars
  /\ pc = "idle"
  /\ entry = "none"
  /\ settings = store
  /\ noteContent = <<>>
  /\ attempt = 0
  /\ title = <<>>
  /\ inflight = {}
  /\ calls = <<>>
  /\ notices = <<>>
  /\ result = <<>>
  /\ edits = 0
  /\ answers = <<>>
  /\ requests = <<>>
  /\ validation = NoValidation
  /\ applied = NotApplied
  /\ editor = EditorOf(store)

ValidateApiKey(apiKey, provider) ==
  /\ validation.op = "none"
  /\ validation' = [Validated("validateApiKey", validateApiKey(apiKey, provider))
                      EXCEPT !.value = apiKey, !.provider = provider]
  /\ UNCHANGED <<mainVars, applied, editor>>

ValidateModelName(modelName, provider) ==
  /\ validation.op = "none"
  /\ validation' = [Validated("validateModelName", validateModelName(modelName, provider))
                      EXCEPT !.value = modelName, !.provider = provider]
  /\ UNCHANGED <<mainVars, applied, editor>>

ValidatePrompt(prompt, isRefinementPrompt) ==
  /\ validation.op = "none"
  /\ validation' = [Validated("validatePrompt", validatePrompt(prompt, isRefinementPrompt))
                      EXCEPT !.value = prompt, !.isRefinementPrompt = isRefinementPrompt]
  /\ UNCHANGED <<mainVars, applied, editor>>

ValidateTemperature(temperature) ==
  /\ validation.op = "none"
  /\ validation' = [Validated("validateTemperature", validateTemperature(temperature))
                      EXCEPT !.value = temperature]
  /\ UNCHANGED <<mainVars, applied, editor>>

ValidateMaxTitleLength(length) ==
  /\ validation.op = "none"
  /\ validation' = [Validated("validateMaxTitleLength", validateMaxTitleLength(length))
                      EXCEPT !.value = length]
  /\ UNCHANGED <<mainVars, applied, editor>>

ValidateMaxContentLength(length) ==
  /\ validation.op = "none"
  /\ validation' = [Validated("validateMaxContentLength", validateMaxContentLength(length))
                      EXCEPT !.value = length]
  /\ UNCHANGED <<mainVars, applied, editor>>

ValidateSettings(s) ==
  /\ validation.op = "none"
  /\ validation' = [Validated("validateSettings", validateSettings(s))
                      EXCEPT !.settings = <<s>>, !.provider = s.aiProvider]
  /\ UNCHANGED <<mainVars, applied, editor>>

ValidateApiResponse(response, provider) ==
  /\ validation.op = "none"
  /\ validation' = [Validated("validateApiResponse", validateApiResponse(response, provider))
                      EXCEPT !.response = <<response>>, !.provider = provider]
  /\ UNCHANGED <<mainVars, applied, editor>>

NextValidation ==
  \/ \E k \in KeyInputs, p \in Providers : ValidateApiKey(k, p)
  \/ \E m \in ModelInputs, p \in Providers : ValidateModelName(m, p)
  \/ \E t \in PromptInputs, b \in BOOLEAN : ValidatePrompt(t, b)
  \/ \E t \in TemperatureInputs : ValidateTemperature(t)
  \/ \E n \in LengthInputs(MIN_MAX_LENGTH, MAX_MAX_LENGTH, 60) : ValidateMaxTitleLength(n)
  \/ \E n \in LengthInputs(MIN_MAX_CONTENT_LENGTH, MAX_MAX_CONTENT_LENGTH, 2000) :
       ValidateMaxContentLength(n)
  \/ \E s \in SettingsInputs : ValidateSettings(s)
  \/ \E r \in ResponseBodyInputs, p \in Providers : ValidateApiResponse(r, p)

SpecValidation == InitValidation /\ [][NextValidation]_vars

(***************************************************************************)
(* A store whose provider tag may be outside the closed enumeration        *)
(***************************************************************************)

\* Settings as loaded with a provider tag that AIProvider does not list.
UnknownProviderSettings == {[s EXCEPT !.aiProvider = "mistral"] : s \in InitialSettings}

\* The store's settings as the JavaScript values validateSettings is handed.
AsSettings(st) ==
  [aiProvider |-> st.aiProvider,
   openAiApiKey |-> JsString(st.openAiApiKey),
   anthropicApiKey |-> JsString(st.anthropicApiKey),
   googleApiKey |-> JsString(st.googleApiKey),
   openAiModel |-> JsString(st.openAiModel),
   anthropicModel |-> JsString(st.anthropicModel),
   googleModel |-> JsString(st.googleModel),
   customPrompt |-> JsString(st.customPrompt),
   refinePrompt |-> JsString(st.refinePrompt),
   temperature |-> JsNumber(st.temperature),
   maxTitleLength |-> JsNumber(Hundredths(st.maxTitleLength)),
   maxContentLength |-> JsNumber(Hundredths(st.maxContentLength))]

InitAnyProvider ==
  /\ store \in InitialSettings \union UnknownProviderSettings
  /\ pc = "idle"
  /\ entry = "none"
  /\ settings = store
  /\ noteContent = <<>>
  /\ attempt = 0
  /\ title = <<>>
  /\ inflight = {}
  /\ calls = <<>>
  /\ notices = <<>>
  /\ result = <<>>
  /\ edits = 0
  /\ answers = <<>>
  /\ requests = <<>>
  /\ validation = NoValidation
  /\ applied = NotApplied
  /\ editor = EditorOf(store)

\* validateSettings on the settings of the store, before any request.
ValidateStored ==
  /\ pc = "idle"
  /\ ValidateSettings(AsSettings(store))

NextAnyProvider ==
  \/ Next
  \/ ValidateStored

SpecAnyProvider == InitAnyProvider /\ [][NextAnyProvider]_vars

(***************************************************************************)
(* The Response Cleaner and the filename sanitizer called one at a time    *)
(***************************************************************************)

\* The longest file name tried, in characters.
MaxFilenameLen == 5

\* The longest raw response tried, in tokens.
MaxTokens == 4

FilenameAlphabet == {"a", " ", ".", ":", "\t"}

FilenameInputs ==
  {JsUndefined, JsNumber(4200),
   JsString(<<"M","y",":","T","i","t","l","e","?","*">>),
   JsString(FALLBACK_TITLE)}
  \union {JsString(s) : s \in UNION {[1..n -> FilenameAlphabet] : n \in 0..MaxFilenameLen}}

\* The pieces raw responses are put together from.
ResponseTokens ==
  {ThinkOpen, ThinkClose, <<"x">>, <<"\n">>, <<" ">>, <<"\"">>,
   <<"T","I","T","L","E",":">>, <<"I","'","l","l">>}

RECURSIVE Concat(_)
Concat(pieces) == IF pieces = <<>> THEN <<>> ELSE Head(pieces) \o Concat(Tail(pieces))

RawResponses ==
  {<<"<","t","h","i","n","k",">","r","e","a","s","o","n","i","n","g","<","/","t","h","i","n","k",">">>,
   <<"T","i","t","l","e",":"," ","M","y"," ","G","r","e","a","t"," ","N","o","t","e">>,
   <<"H","e","r","e","'","s"," ","t","h","e"," ","t","i","t","l","e",":"," ","F","o","o","\n","B","a","r">>}
  \union {Concat(ts) : ts \in UNION {[1..n -> ResponseTokens] : n \in 0..MaxTokens}}

InitText ==
  /\ store \in InitialSettings
  /\ store.aiProvider = "openai" /\ store.googleApiKey = KeyValid
  /\ store.openAiModel # <<>> /\ store.lowerCaseTitles /\ store.removeForbiddenChars
  /\ pc = "idle"
  /\ entry = "none"
  /\ settings = store
  /\ noteContent = <<>>
  /\ attempt = 0
  /\ title = <<>>
  /\ inflight = {}
  /\ calls = <<>>
  /\ notices = <<>>
  /\ result = <<>>
  /\ edits = 0
  /\ answers = <<>>
  /\ requests = <<>>
  /\ validation = NoValidation
  /\ applied = NotApplied
  /\ editor = EditorOf(store)

\* cleanAIResponse(response)
CleanAIResponse(response) ==
  /\ applied.fn = "none"
  /\ applied' = [fn |-> "cleanAIResponse", input |-> JsString(response),
                 output |-> cleanAIResponse(response)]
  /\ UNCHANGED <<mainVars, validation, editor>>

\* sanitizeFilename(filename): what is not a string gets the fallback title.
SanitizeFilename(filename) ==
  /\ applied.fn = "none"
  /\ applied' = [fn |-> "sanitizeFilename", input |-> filename,
                 output |-> IF filename.type # "string" THEN FALLBACK_TITLE
                            ELSE sanitizeFilename(filename.str)]
  /\ UNCHANGED <<mainVars, validation, editor>>

NextText ==
  \/ \E r \in RawResponses : CleanAIResponse(r)
  \/ \E f \in FilenameInputs : SanitizeFilename(f)

SpecText == InitText /\ [][NextText]_vars

(***************************************************************************)
(* The API-key editor: TitleGeneratorSettingTab.renderProviderSettings     *)
(***************************************************************************)

\* The most OK clicks whose saveSettings() has not finished.
MaxSaves == 2

\* What the user types into the text field.
KeyTexts == {<<>>, <<"A">>, <<"B">>, <<"A","B">>}

\* settings[keyName] = value
WithApiKey(st, value) ==
  CASE st.aiProvider = "openai" -> [st EXCEPT !.openAiApiKey = value]
    [] st.aiProvider = "anthropic" -> [st EXCEPT !.anthropicApiKey = value]
    [] st.aiProvider = "google" -> [st EXCEPT !.googleApiKey = value]

InitEditor ==
  /\ store \in InitialSettings
  /\ store.lowerCaseTitles /\ store.removeForbiddenChars
  /\ ActiveModel(store) # <<>>
  /\ ActiveApiKey(store) \in {<<>>, KeyValid}
  /\ \A p \in Providers \ {store.aiProvider} :
       ActiveApiKey([store EXCEPT !.aiProvider = p]) = <<>>
  /\ pc = "idle"
  /\ entry = "none"
  /\ settings = store
  /\ noteContent = <<>>
  /\ attempt = 0
  /\ title = <<>>
  /\ inflight = {}
  /\ calls = <<>>
  /\ notices = <<>>
  /\ result = <<>>
  /\ edits = 0
  /\ answers = <<>>
  /\ requests = <<>>
  /\ validation = NoValidation
  /\ applied = NotApplied
  /\ editor = EditorOf(store)

\* The user rewrites the text field: the text's onChange.
TypeKey(value) ==
  /\ value # editor.text
  /\ editor' = [editor EXCEPT !.text = value, !.currentValue = value,
                              !.cancelDisabled = ~(value # editor.initialValue),
                              !.okDisabled = ~(value # editor.initialValue)]
  /\ UNCHANGED <<mainVars, validation, applied>>

\* Cancel's onClick.
ClickCancel ==
  /\ ~editor.cancelDisabled
  /\ editor' = [editor EXCEPT !.text = editor.initialValue,
                              !.currentValue = editor.initialValue,
                              !.cancelDisabled = TRUE, !.okDisabled = TRUE]
  /\ UNCHANGED <<mainVars, validation, applied>>

\* OK's onClick up to its await: the key is stored and saveSettings() started.
ClickOk ==
  /\ ~editor.okDisabled
  /\ editor.saving < MaxSaves
  /\ store' = WithApiKey(store, editor.currentValue)
  /\ editor' = [editor EXCEPT !.saving = @ + 1]
  /\ UNCHANGED <<pc, entry, settings, noteContent, attempt, title, inflight, calls,
                 notices, result, edits, answers, requests, validation, applied>>

\* OK's onClick after its await: saveSettings() has finished.
SaveDone ==
  /\ editor.saving > 0
  /\ editor' = [editor EXCEPT !.saving = @ - 1,
                              !.initialValue = editor.currentValue,
                              !.cancelDisabled = TRUE, !.okDisabled = TRUE]
  /\ UNCHANGED <<mainVars, validation, applied>>

NextEditor ==
  \/ \E value \in KeyTexts : TypeKey(value)
  \/ ClickCancel
  \/ ClickOk
  \/ SaveDone

SpecEditor == InitEditor /\ [][NextEditor]_vars

(***************************************************************************)
(* Properties                                                              *)
(***************************************************************************)

\* The last callAI of the request.
LastCall == calls[Len(calls)]

\* The notices of generateTitle's catch block.
ErrorKinds == {"missingKey", "apiError", "other"}

ErrorNotices == SelectSeq(notices, LAMBDA n : n.kind \in ErrorKinds)

AllResolved == \A i \in 1..Len(calls) : calls[i].status = "resolved"

\* s with the first occurrence of pat replaced by repl, character for
\* character.
Substituted(s, pat, repl) ==
  LET i == IndexOf(s, pat, 1)
  IN IF i = 0 THEN s
     ELSE SubSeq(s, 1, i - 1) \o repl \o SubSeq(s, i + Len(pat), Len(s))

\* C1: a generateTitle request that reaches the loop and in which no provider
\* call fails makes as many provider calls as the index of the first attempt
\* whose cleaned title is non-empty and within maxTitleLength, or 3 when no
\* attempt gives such a title; no request makes more than 3 provider calls.
C1_AttemptCount ==
  /\ Len(calls) <= 3
  /\ (entry = "generateTitle" /\ pc = "returned" /\ calls # <<>> /\ AllResolved)
       => LET good == {i \in 1..Len(calls) :
                         /\ Len(calls[i].title) > 0
                         /\ Len(calls[i].title) <= settings.maxTitleLength}
          IN Len(calls) = IF good = {} THEN 3 ELSE SetMin(good)

\* C1 witness: a request that returned after a too long first title and a
\* valid second one.
C1_Witness ==
  /\ entry = "generateTitle"
  /\ pc = "returned"
  /\ Len(calls) = 2
  /\ AllResolved
  /\ Len(calls[1].title) > settings.maxTitleLength
  /\ Len(calls[2].title) \in 1..settings.maxTitleLength

\* C2: every string generateTitle returns is at most maxTitleLength long.
C2_LengthBound ==
  (entry = "generateTitle" /\ pc = "returned")
    => Len(result) <= settings.maxTitleLength

\* C2 witness: three attempts were too long, both flags are set, and the
\* title returned is cut to the bound.
C2_Witness ==
  /\ entry = "generateTitle"
  /\ pc = "returned"
  /\ Len(calls) = 3
  /\ AllResolved
  /\ Len(title) > settings.maxTitleLength
  /\ settings.lowerCaseTitles
  /\ settings.removeForbiddenChars
  /\ Len(result) = settings.maxTitleLength

\* C3: a generateTitle request started with an empty or blank API key, or an
\* empty model, for the active provider makes no provider call, returns ''
\* and shows one configuration notice that names the provider and the
\* missing field.
C3_MissingConfiguration ==
  (/\ entry = "generateTitle"
   /\ pc # "idle"
   /\ (Trim(ActiveApiKey(settings)) = <<>> \/ ActiveModel(settings) = <<>>))
    => /\ pc = "returned"
       /\ calls = <<>>
       /\ inflight = {}
       /\ result = <<>>
       /\ notices = <<[kind |-> "config",
                       provider |-> settings.aiProvider,
                       field |-> IF Trim(ActiveApiKey(settings)) = <<>>
                                 THEN "apiKey" ELSE "model",
                       message |-> <<>>]>>

\* C3 witness: a request started with a blank key has returned ''.
C3_Witness ==
  /\ entry = "generateTitle"
  /\ pc = "returned"
  /\ ActiveApiKey(settings) = KeyBlank
  /\ result = <<>>
  /\ Len(notices) = 1

\* C4 as claimed: through either entry point a failed provider call ends in
\* a notice and the result '', never in an exception for the caller.
C4_NoFailureEscapes ==
  (calls # <<>> /\ LastCall.status \in {"failed", "threw"})
    => /\ pc = "returned"
       /\ result = <<>>
       /\ ErrorNotices # <<>>

\* C4 amended: generateTitle turns a failed provider call into a notice and
\* the result ''; makeAICall has no handler, so the failure rejects its
\* promise and no notice is shown.
C4_OnlyGenerateTitleCatches ==
  /\ (entry = "generateTitle" => pc # "rejected")
  /\ (calls # <<>> /\ LastCall.status \in {"failed", "threw"})
       => IF entry = "generateTitle"
          THEN /\ pc = "returned"
               /\ result = <<>>
               /\ Len(ErrorNotices) = 1
               /\ notices[Len(notices)].kind \in ErrorKinds
          ELSE /\ pc = "rejected"
               /\ ErrorNotices = <<>>

\* C4 witness: generateTitle returned after its provider call failed.
C4_Witness ==
  /\ entry = "generateTitle"
  /\ pc = "returned"
  /\ calls # <<>>
  /\ LastCall.status = "failed"
  /\ result = <<>>

\* C5: at most one provider call of a request is in flight; a call is made
\* only when every earlier call of the request has resolved without error;
\* after a failed call generateTitle makes no other and returns ''.
C5_Sequential ==
  /\ Cardinality(inflight) <= 1
  /\ \A i \in 1..Len(calls) : i < Len(calls) => calls[i].status = "resolved"
  /\ \A f \in inflight :
       /\ pc = "awaiting"
       /\ f.attempt = LastCall.attempt
       /\ LastCall.status = "pending"
  /\ (entry = "generateTitle" /\ calls # <<>> /\ LastCall.status \in {"failed", "threw"})
       => (pc = "returned" /\ result = <<>> /\ inflight = {})

\* C5 witness: the second attempt of a request failed and the request
\* returned ''.
C5_Witness ==
  /\ entry = "generateTitle"
  /\ pc = "returned"
  /\ Len(calls) = 2
  /\ calls[1].status = "resolved"
  /\ calls[2].status = "failed"
  /\ result = <<>>

\* C6 as claimed: every request of a generateTitle call carries the
\* provider, key and model of the settings read when generateTitle started.
C6_SnapshotUsed ==
  entry = "generateTitle"
    => \A i \in 1..Len(calls) :
         calls[i].request # <<>>
           => /\ calls[i].request[1].provider = settings.aiProvider
              /\ calls[i].request[1].apiKey = ActiveApiKey(settings)
              /\ calls[i].request[1].model = ActiveModel(settings)

\* C6 amended: every request carries the provider, key, model and (when one
\* is sent) temperature the store holds when that call is made; the first
\* attempt's are those of the settings read when generateTitle started.
C6_StoreAtCallUsed ==
  /\ \A i \in 1..Len(calls) :
       calls[i].request # <<>>
         => /\ calls[i].request[1].provider = calls[i].storeProvider
            /\ calls[i].request[1].apiKey = calls[i].storeApiKey
            /\ calls[i].request[1].model = calls[i].storeModel
            /\ calls[i].request[1].temperature \in {<<>>, <<calls[i].storeTemperature>>}
  /\ (entry = "generateTitle" /\ calls # <<>> /\ calls[1].request # <<>>)
       => /\ calls[1].request[1].provider = settings.aiProvider
          /\ calls[1].request[1].apiKey = ActiveApiKey(settings)
          /\ calls[1].request[1].model = ActiveModel(settings)

\* C6 witness: the second attempt went to a provider other than the one
\* active when generateTitle started.
C6_Witness ==
  /\ entry = "generateTitle"
  /\ Len(calls) >= 2
  /\ calls[2].request # <<>>
  /\ calls[2].request[1].provider # settings.aiProvider

\* C7 as claimed: the prompt of every attempt after the first is the
\* refinement template with {max_length} replaced by maxTitleLength and
\* {title} by the previous attempt's cleaned title, character for character.
C7_RefinePromptVerbatim ==
  entry = "generateTitle"
    => \A i \in 2..Len(calls) :
         /\ calls[i].prompt =
              Substituted(Substituted(settings.refinePrompt, MaxLengthPlaceholder,
                                      NumberToString(settings.maxTitleLength)),
                          TitlePlaceholder, calls[i - 1].title)
         /\ Includes(calls[i].prompt, calls[i - 1].title)

\* C8: the first attempt sends the first maxContentLength characters of the
\* document and no more; later attempts send empty content, and their
\* requests do not hold the document text.
C8_ContentOnlyOnce ==
  entry = "generateTitle"
    => \A i \in 1..Len(calls) :
         IF i = 1
         THEN /\ Len(calls[i].content) <= settings.maxContentLength
              /\ Len(calls[i].content) =
                   IF Len(noteContent) < settings.maxContentLength
                   THEN Len(noteContent) ELSE settings.maxContentLength
              /\ StartsWith(noteContent, calls[i].content)
              /\ calls[i].request # <<>>
                   => calls[i].request[1].prompt =
                        Trim(calls[i].prompt \o <<"\n", "\n">> \o calls[i].content)
         ELSE /\ calls[i].content = <<>>
              /\ calls[i].request # <<>>
                   => /\ calls[i].request[1].prompt = Trim(calls[i].prompt)
                      /\ ~Includes(calls[i].request[1].prompt, calls[1].content)

\* C8 witness: a document longer than maxContentLength, and a second attempt
\* requested.
C8_Witness ==
  /\ entry = "generateTitle"
  /\ Len(noteContent) > settings.maxContentLength
  /\ Len(calls) >= 2
  /\ calls[1].content # <<>>
  /\ calls[2].request # <<>>

\* C9: an attempt that resolves with an empty cleaned title is followed by
\* another attempt while fewer than 3 were made, and by the return after the
\* third; it shows no error notice.
C9_EmptyTitleRetried ==
  entry = "generateTitle"
    => /\ \A i \in 1..Len(calls) :
            (calls[i].status = "resolved" /\ calls[i].title = <<>>)
              => IF i < 3 THEN Len(calls) > i ELSE pc = "returned"
       /\ AllResolved => ErrorNotices = <<>>

\* C9 witness: the first attempt gave an empty title, the second a valid
\* one, and no error notice was shown.
C9_Witness ==
  /\ entry = "generateTitle"
  /\ pc = "returned"
  /\ Len(calls) = 2
  /\ AllResolved
  /\ calls[1].title = <<>>
  /\ calls[2].title # <<>>
  /\ ErrorNotices = <<>>

\* C10 as claimed: an attempt with the refinement prompt is made only after
\* an attempt whose cleaned title was longer than maxTitleLength.
C10_RefineOnlyAfterTooLong ==
  entry = "generateTitle"
    => \A i \in 2..Len(calls) :
         Len(calls[i - 1].title) > settings.maxTitleLength

\* A transport failure: requestUrl rejected, or settled with a status other
\* than 200.
TransportFailure(r) == r.kind = "reject" \/ r.status # 200

\* The blocks of a response that hold text and are neither thoughts nor of
\* another type than text.
QualifyingItems(r) ==
  {k \in 1..Len(r.items) :
     /\ r.items[k].type = "text"
     /\ r.items[k].hasText
     /\ r.items[k].text # <<>>
     /\ ~r.items[k].thought}

\* C11 as claimed: when a provider call of generateTitle ends in a transport
\* failure, generateTitle returns '' and its notice is of the API error
\* category; for a status other than 200 the message holds the status code
\* and the raw body.
C11_TransportFailureIsApiError ==
  (entry = "generateTitle" /\ answers # <<>> /\ TransportFailure(answers[Len(answers)]))
    => /\ pc = "returned"
       /\ result = <<>>
       /\ notices # <<>>
       /\ notices[Len(notices)].kind = "apiError"
       /\ answers[Len(answers)].kind = "response"
            => /\ Includes(notices[Len(notices)].message,
                           NumberToString(answers[Len(answers)].status))
               /\ Includes(notices[Len(notices)].message, answers[Len(answers)].text)

\* C12: through either entry point, a call made while the store holds an empty
\* key for the active provider hands no request to requestUrl and throws
\* '<provider> API key is not set.'.
C12_AbsentKeyFailsFast ==
  \A i \in 1..Len(calls) :
    (calls[i].storeProvider \in Providers /\ calls[i].storeApiKey = <<>>)
      => /\ calls[i].request = <<>>
         /\ calls[i].status = "threw"
         /\ calls[i].error = ProviderName(calls[i].storeProvider) \o KeyNotSetSuffix
         /\ Includes(calls[i].error,
                     <<"A","P","I"," ","k","e","y"," ","i","s"," ","n","o","t"," ","s","e","t">>)
         /\ \A f \in inflight : f.attempt # calls[i].attempt
         /\ Len(answers) < i

\* C12 witness: the key was cleared while generateTitle was suspended, and
\* its second attempt threw without a request.
C12_Witness ==
  /\ entry = "generateTitle"
  /\ Len(calls) = 2
  /\ calls[1].storeApiKey # <<>>
  /\ calls[2].storeApiKey = <<>>
  /\ calls[2].status = "threw"
  /\ calls[2].request = <<>>

\* C13 as claimed: a response of status 200 never makes the adapter throw,
\* and one without qualifying text makes it return ''.
C13_NoTextReturnsEmpty ==
  \A i \in 1..Len(answers) :
    (answers[i].kind = "response" /\ answers[i].status = 200)
      => /\ calls[i].status = "resolved"
         /\ (~answers[i].hasItems \/ QualifyingItems(answers[i]) = {})
              => /\ calls[i].title = <<>>
                 /\ (entry = "makeAICall" => pc = "returned" /\ result = <<>>)

\* C14: makeAICall makes one provider call, with the caller's prompt and
\* content, and returns the text its adapter extracted as it is: no second
\* call, no refinement notice, no cleaning or final processing.
C14_MakeAICallSingleRaw ==
  entry = "makeAICall"
    => /\ Len(calls) = 1
       /\ calls[1].prompt \in DirectPrompts
       /\ calls[1].content = noteContent
       /\ calls[1].request # <<>>
            => calls[1].request[1].prompt = FullPrompt(calls[1].prompt, noteContent)
       /\ Len(answers) <= 1
       /\ \A n \in 1..Len(notices) : notices[n].kind # "refining"
       /\ pc = "returned"
            => /\ answers # <<>>
               /\ result = adapterText(calls[1].request[1].provider, answers[1]).text

\* C14 witness: makeAICall returned a response with a think block, a label
\* and quotes as the provider gave it.
C14_Witness ==
  /\ entry = "makeAICall"
  /\ pc = "returned"
  /\ noteContent # <<>>
  /\ result = LabelledTitle
  /\ result # cleanAIResponse(result)

\* The requests of the single generateTitle call, as sent.
PromptsSent ==
  LET sent == SelectSeq(calls, LAMBDA c : c.request # <<>>)
  IN [k \in 1..Len(sent) |-> sent[k].request[1].prompt]

\* While the store is as it was at its start, the generateTitle call of Spec
\* is where RunAlone says it is.
GenerateTitleIsRunAlone ==
  (entry = "generateTitle" /\ edits = 0)
    => LET alone == RunAlone(settings, noteContent, answers)
       IN /\ alone.pc = pc
          /\ alone.attempt = attempt
          /\ alone.prompts = PromptsSent
          /\ alone.result = result
          /\ alone.heard = answers

C16_Terminates ==
  (entry = "generateTitle") ~> [](pc = "returned" /\ inflight = {})

\* C16 witness: a generateTitle call returned after the three attempts the
\* loop allows, the last one failed.
C16_Witness ==
  /\ entry = "generateTitle"
  /\ pc = "returned"
  /\ Len(calls) = 3
  /\ Len(answers) = 3
  /\ inflight = {}
  /\ calls[3].status = "failed"

\* validateSettings' verdict spelled out: the active provider's key and model
\* are there and every field validator accepts its field.
SettingsValidExactly(s) ==
  LET provider == s.aiProvider
      apiKey == s[getApiKeyField(provider).field]
      model == s[getModelField(provider).field]
  IN /\ Truthy(apiKey) /\ validateApiKey(apiKey, provider).valid
     /\ Truthy(model) /\ validateModelName(model, provider).valid
     /\ validatePrompt(s.customPrompt, FALSE).valid
     /\ validatePrompt(s.refinePrompt, TRUE).valid
     /\ validateTemperature(s.temperature).valid
     /\ validateMaxTitleLength(s.maxTitleLength).valid
     /\ validateMaxContentLength(s.maxContentLength).valid

\* C17: whatever validator ran on whatever input, the result it returned is
\* valid exactly when its errors are empty, warnings or not; validateSettings'
\* result is valid exactly when the active provider's key and model are
\* present and every sub-validation is valid.
C17_ValidIffNoErrors ==
  (validation.op # "none" /\ validation.result.threw = "") =>
    /\ validation.result.valid <=> (validation.result.errors = <<>>)
    /\ validation.op = "validateSettings" =>
         (validation.result.valid <=> SettingsValidExactly(validation.settings[1]))

\* validateSettings returned a valid result that carries warnings.
C17_Witness ==
  /\ validation.op = "validateSettings"
  /\ validation.result.valid
  /\ validation.result.errors = <<>>
  /\ validation.result.warnings # <<>>

\* A string whose trimmed length is within lo..hi.
InLength(v, lo, hi) == v.type = "string" /\ Len(Trim(v.str)) \in lo..hi

\* Settings whose active provider is one of the three and whose active key,
\* active model, prompts and numbers are all there and within their ranges.
PopulatedInRange(s) ==
  LET p == s.aiProvider
      key == IF p = "openai" THEN s.openAiApiKey
             ELSE IF p = "anthropic" THEN s.anthropicApiKey ELSE s.googleApiKey
      model == IF p = "openai" THEN s.openAiModel
               ELSE IF p = "anthropic" THEN s.anthropicModel ELSE s.googleModel
  IN /\ p \in Providers
     /\ InLength(key, API_KEY_MIN_LENGTH, API_KEY_MAX_LENGTH)
     /\ InLength(model, MODEL_NAME_MIN_LENGTH, MODEL_NAME_MAX_LENGTH)
     /\ InLength(s.customPrompt, PROMPT_MIN_LENGTH, PROMPT_MAX_LENGTH)
     /\ Includes(s.customPrompt.str, MaxLengthPlaceholder)
     /\ InLength(s.refinePrompt, PROMPT_MIN_LENGTH, PROMPT_MAX_LENGTH)
     /\ Includes(s.refinePrompt.str, MaxLengthPlaceholder)
     /\ Includes(s.refinePrompt.str, TitlePlaceholder)
     /\ s.temperature.type = "number"
     /\ s.temperature.num \in MIN_TEMPERATURE..MAX_TEMPERATURE
     /\ IsWholeNumber(s.maxTitleLength)
     /\ s.maxTitleLength.num \in Hundredths(MIN_MAX_LENGTH)..Hundredths(MAX_MAX_LENGTH)
     /\ IsWholeNumber(s.maxContentLength)
     /\ s.maxContentLength.num \in
          Hundredths(MIN_MAX_CONTENT_LENGTH)..Hundredths(MAX_MAX_CONTENT_LENGTH)

\* C18: validateSettings on settings that are fully populated and in range
\* for their active provider (any of the three) returns a valid result with
\* no error, whatever the fields of the providers that are not active hold.
C18_PopulatedSettingsValid ==
  (validation.op = "validateSettings" /\ PopulatedInRange(validation.settings[1])) =>
    /\ validation.result.threw = ""
    /\ validation.result.valid
    /\ validation.result.errors = <<>>

\* Anthropic's settings were found valid while OpenAI's and Google's keys
\* are too short and their models blank.
C18_Witness ==
  /\ validation.op = "validateSettings"
  /\ PopulatedInRange(validation.settings[1])
  /\ validation.settings[1].aiProvider = "anthropic"
  /\ validation.settings[1].openAiApiKey = JsString(<<"?">>)
  /\ validation.settings[1].googleModel = JsString(<<" ">>)
  /\ validation.result.valid
  /\ validation.result.errors = <<>>

\* C19: a key is accepted exactly when its trimmed length is within
\* API_KEY_MIN_LENGTH..API_KEY_MAX_LENGTH, a maximum title length exactly when
\* it is a whole number within MIN_MAX_LENGTH..MAX_MAX_LENGTH, a maximum
\* content length exactly when it is a whole number within
\* MIN_MAX_CONTENT_LENGTH..MAX_MAX_CONTENT_LENGTH: the bounds themselves are
\* valid and one unit outside them is not.
C19_BoundsInclusive ==
  /\ (validation.op = "validateApiKey" /\ validation.value.type = "string") =>
       (validation.result.valid <=>
          Len(Trim(validation.value.str)) \in API_KEY_MIN_LENGTH..API_KEY_MAX_LENGTH)
  /\ (validation.op = "validateMaxTitleLength" /\ IsWholeNumber(validation.value)) =>
       (validation.result.valid <=>
          validation.value.num \in Hundredths(MIN_MAX_LENGTH)..Hundredths(MAX_MAX_LENGTH))
  /\ (validation.op = "validateMaxContentLength" /\ IsWholeNumber(validation.value)) =>
       (validation.result.valid <=>
          validation.value.num \in
            Hundredths(MIN_MAX_CONTENT_LENGTH)..Hundredths(MAX_MAX_CONTENT_LENGTH))

\* A key of the maximum length with white space around it was accepted.
C19_Witness ==
  /\ validation.op = "validateApiKey"
  /\ validation.value.type = "string"
  /\ Len(validation.value.str) > API_KEY_MAX_LENGTH
  /\ Len(Trim(validation.value.str)) = API_KEY_MAX_LENGTH
  /\ validation.result.valid

\* The placeholders a prompt must contain, by name.
RequiredPlaceholders(isRefinementPrompt) ==
  IF isRefinementPrompt THEN {"{max_length}", "{title}"} ELSE {"{max_length}"}

PlaceholderText(name) ==
  IF name = "{title}" THEN TitlePlaceholder ELSE MaxLengthPlaceholder

PlaceholderError(isRefinementPrompt, name) ==
  (IF isRefinementPrompt THEN "Refinement prompt" ELSE "Prompt")
  \o " must contain placeholder: " \o name

PlaceholderErrors ==
  {PlaceholderError(b, name) : b \in BOOLEAN, name \in {"{max_length}", "{title}"}}

Occurrences(messages, m) == Cardinality({k \in DOMAIN messages : messages[k] = m})

\* What the last validatePrompt call reported is one placeholder error for
\* each required placeholder its trimmed prompt lacks and no other placeholder
\* error, and it found the prompt valid exactly when the trimmed length is
\* within bounds and no required placeholder is missing.
PromptReportExact ==
  LET trimmedPrompt == Trim(validation.value.str)
      required == RequiredPlaceholders(validation.isRefinementPrompt)
      missing == {name \in required : ~Includes(trimmedPrompt, PlaceholderText(name))}
      errors == validation.result.errors
  IN /\ \A name \in required :
          Occurrences(errors, PlaceholderError(validation.isRefinementPrompt, name))
            = IF name \in missing THEN 1 ELSE 0
     /\ Cardinality({k \in DOMAIN errors : errors[k] \in PlaceholderErrors})
          = Cardinality(missing)
     /\ validation.result.valid <=>
          /\ Len(trimmedPrompt) \in PROMPT_MIN_LENGTH..PROMPT_MAX_LENGTH
          /\ missing = {}

\* C20 as stated: for every non-empty prompt, validatePrompt reports exactly
\* one placeholder error per missing required placeholder, and the prompt is
\* valid exactly when its trimmed length is within bounds and no required
\* placeholder is missing.
C20_EveryNonEmptyPrompt ==
  (/\ validation.op = "validatePrompt"
   /\ validation.value.type = "string"
   /\ validation.value.str # <<>>) => PromptReportExact

\* C20, amended: the same for every prompt that has something left after
\* trimming; a prompt of white space only gets the single error 'Prompt
\* cannot be empty'.
C20_PlaceholdersReported ==
  (/\ validation.op = "validatePrompt"
   /\ validation.value.type = "string"
   /\ Trim(validation.value.str) # <<>>) => PromptReportExact

\* A refinement prompt that is too long and has neither placeholder got the
\* length error and both placeholder errors.
C20_Witness ==
  /\ validation.op = "validatePrompt"
  /\ validation.isRefinementPrompt
  /\ validation.value.type = "string"
  /\ Len(Trim(validation.value.str)) > PROMPT_MAX_LENGTH
  /\ Len(validation.result.errors) = 3
  /\ Occurrences(validation.result.errors, PlaceholderError(TRUE, "{max_length}")) = 1
  /\ Occurrences(validation.result.errors, PlaceholderError(TRUE, "{title}")) = 1

\* C21: no validation operation throws, whatever its input: every problem is
\* returned in the ValidationResult.
C21_NoValidationThrows == validation.result.threw = ""

\* C22: with a provider tag outside the enumeration in the store, no request
\* is handed to the transport; validateSettings stops in the field-name
\* lookup with the error kind UNKNOWN_PROVIDER before it reads any field;
\* generateTitle returns '' after the one invalid-provider notice and calls no
\* adapter; callAI (through makeAICall) throws the unsupported-provider error.
C22_UnknownProviderStops ==
  store.aiProvider \notin Providers =>
    /\ inflight = {}
    /\ answers = <<>>
    /\ \A k \in 1..Len(calls) : calls[k].request = <<>>
    /\ validation.op = "validateSettings" =>
         /\ validation.result.threw = "UNKNOWN_PROVIDER"
         /\ validation.result.errors = <<>>
         /\ validation.result.warnings = <<>>
    /\ entry = "generateTitle" =>
         /\ pc = "returned"
         /\ result = <<>>
         /\ calls = <<>>
         /\ notices = <<Notice("config", store.aiProvider, "provider", <<>>)>>
    /\ entry = "makeAICall" =>
         /\ pc = "rejected"
         /\ Len(calls) = 1
         /\ LastCall.status = "threw"
         /\ LastCall.error = UnsupportedProviderMessage
         /\ notices = <<>>

\* With an unknown provider and an OpenAI key in the store, validateSettings
\* has thrown and generateTitle has returned ''.
C22_Witness ==
  /\ store.aiProvider \notin Providers
  /\ store.openAiApiKey = KeyValid
  /\ validation.op = "validateSettings"
  /\ validation.result.threw = "UNKNOWN_PROVIDER"
  /\ entry = "generateTitle"
  /\ pc = "returned"
  /\ result = <<>>
  /\ Len(notices) = 1

\* As C22_Witness, for makeAICall.
C22_WitnessMakeAICall ==
  /\ store.aiProvider \notin Providers
  /\ store.openAiApiKey = KeyValid
  /\ entry = "makeAICall"
  /\ pc = "rejected"
  /\ LastCall.error = UnsupportedProviderMessage

\* A file name of which sanitation leaves nothing: every character is
\* forbidden, white space or a dot.
NothingRemains(s) ==
  \A k \in 1..Len(s) : s[k] \in ForbiddenChars \union WhiteSpace \union {"."}

\* C23: whatever its input, sanitizeFilename returns a non-empty string with
\* no forbidden character, with no white space but single spaces between
\* other characters, and with no space or dot at either end; it is the
\* fallback title when the input is not a usable string or nothing remains
\* after stripping, and otherwise keeps the input's remaining characters in
\* their order.
C23_SanitizedForm ==
  applied.fn = "sanitizeFilename" =>
    LET out == applied.output
        usable == applied.input.type = "string" /\ applied.input.str # <<>>
    IN /\ out # <<>>
       /\ \A k \in 1..Len(out) :
            /\ out[k] \notin ForbiddenChars
            /\ out[k] \in WhiteSpace =>
                 (out[k] = " " /\ k < Len(out) /\ out[k + 1] \notin WhiteSpace)
       /\ out[1] \notin {" ", "."}
       /\ out[Len(out)] \notin {" ", "."}
       /\ IF ~usable \/ NothingRemains(applied.input.str)
          THEN out = FALLBACK_TITLE
          ELSE RemoveChars(out, {" ", "."})
                 = RemoveChars(applied.input.str,
                               ForbiddenChars \union WhiteSpace \union {"."})

\* sanitizeFilename("My:Title?*") returned "MyTitle".
C23_Witness ==
  /\ applied.fn = "sanitizeFilename"
  /\ applied.input = JsString(<<"M","y",":","T","i","t","l","e","?","*">>)
  /\ applied.output = <<"M","y","T","i","t","l","e">>

\* A file name of dots, spaces and forbidden characters only got the
\* fallback title.
C23_WitnessFallback ==
  /\ applied.fn = "sanitizeFilename"
  /\ applied.input = JsString(<<".", " ", ":", "\t", ".">>)
  /\ applied.output = FALLBACK_TITLE

\* The interior of a raw response that is, once trimmed, one reasoning block
\* and nothing else: "<think>", an interior without delimiters, "</think>".
ThinkInterior(response) ==
  SubSeq(Trim(response), Len(ThinkOpen) + 1, Len(Trim(response)) - Len(ThinkClose))

IsSingleThinkBlock(response) ==
  /\ Len(Trim(response)) >= Len(ThinkOpen) + Len(ThinkClose)
  /\ StartsWith(Trim(response), ThinkOpen)
  /\ EndsWith(Trim(response), ThinkClose)
  /\ ~Includes(ThinkInterior(response), ThinkOpen)
  /\ ~Includes(ThinkInterior(response), ThinkClose)

\* C24 as stated: a raw response that is a single reasoning block with
\* nothing outside it is cleaned to the empty string.
C24_WholeThinkIsEmpty ==
  (applied.fn = "cleanAIResponse" /\ IsSingleThinkBlock(applied.input.str))
    => applied.output = <<>>

\* C24, amended: a raw response that is a single reasoning block is unwrapped:
\* it is cleaned to a line of the block's interior, without its quote
\* characters, and to the empty string only when the interior has no such
\* line (it is empty, white space, or only label prefixes and quotes).
C24_WholeThinkUnwrapped ==
  (applied.fn = "cleanAIResponse" /\ IsSingleThinkBlock(applied.input.str))
    => LET lines == NonEmptyTrimmedLines(ThinkInterior(applied.input.str))
           Polished(line) == Trim(RemoveChars(StripLabelPrefix(line), QuoteChars))
       IN IF lines = <<>> THEN applied.output = <<>>
          ELSE \E k \in 1..Len(lines) : applied.output = Polished(lines[k])

\* "<think>reasoning</think>" was cleaned to "reasoning".
C24_Witness ==
  /\ applied.fn = "cleanAIResponse"
  /\ applied.input.str = ThinkOpen \o <<"r","e","a","s","o","n","i","n","g">> \o ThinkClose
  /\ applied.output = <<"r","e","a","s","o","n","i","n","g">>

\* The raw response after the unwrapping and the removal of reasoning blocks.
ReasoningStripped(response) ==
  LET text == Trim(response)
      unwrapped == IF WholeThinkMatches(text) /\ WholeThinkGroup(text) # <<>>
                   THEN Trim(WholeThinkGroup(text)) ELSE text
  IN Trim(RemoveThinkBlocks(unwrapped))

\* line starts, in whatever case, with one of pats.
StartsWithOneOf(line, pats) ==
  \E k \in 1..Len(pats) : StartsWith(ToLowerCase(line), ToLowerCase(pats[k]))

\* out is line without a leading label prefix and the white space after it.
IsWithoutLabel(out, line) ==
  IF StartsWithOneOf(line, LabelPrefixes)
  THEN \E k \in 1..Len(LabelPrefixes) :
         /\ StartsWith(ToLowerCase(line), ToLowerCase(LabelPrefixes[k]))
         /\ out = TrimStart(SubSeq(line, Len(LabelPrefixes[k]) + 1, Len(line)))
  ELSE out = line

\* C25: the cleaner's result comes from exactly one line of the
\* reasoning-stripped response: the first non-empty trimmed line that does not
\* start with a preamble pattern, or the first non-empty line when every line
\* starts with one; it is that line without a leading label prefix and
\* without any quote character, trimmed.  Without a non-empty line the result
\* is the empty string.
C25_OneLineSelected ==
  applied.fn = "cleanAIResponse" =>
    LET lines == NonEmptyTrimmedLines(ReasoningStripped(applied.input.str))
        plain == {k \in 1..Len(lines) : ~StartsWithOneOf(lines[k], PreamblePatterns)}
        chosen == IF plain = {} THEN 1 ELSE SetMin(plain)
    IN /\ \A k \in 1..Len(applied.output) : applied.output[k] \notin QuoteChars
       /\ IF lines = <<>> THEN applied.output = <<>>
          ELSE \E unlabelled \in {SubSeq(lines[chosen], i, Len(lines[chosen])) :
                                    i \in 1..(Len(lines[chosen]) + 1)} :
                 /\ IsWithoutLabel(unlabelled, lines[chosen])
                 /\ applied.output = Trim(RemoveChars(unlabelled, QuoteChars))

\* "Here's the title: Foo\nBar" was cleaned to "Bar": the first line starts
\* with a preamble pattern, the second does not.
C25_Witness ==
  /\ applied.fn = "cleanAIResponse"
  /\ applied.input.str =
       <<"H","e","r","e","'","s"," ","t","h","e"," ","t","i","t","l","e",":"," ",
         "F","o","o","\n","B","a","r">>
  /\ applied.output = <<"B","a","r">>

\* "Title: My Great Note" was cleaned to "My Great Note".
C25_WitnessLabel ==
  /\ applied.fn = "cleanAIResponse"
  /\ applied.input.str =
       <<"T","i","t","l","e",":"," ","M","y"," ","G","r","e","a","t"," ","N","o","t","e">>
  /\ applied.output = <<"M","y"," ","G","r","e","a","t"," ","N","o","t","e">>

\* C29: whatever the raw response, the cleaner's output contains neither
\* "<think>" nor "</think>".
C29_NoDelimiterLeft ==
  applied.fn = "cleanAIResponse" =>
    /\ ~Includes(applied.output, ThinkOpen)
    /\ ~Includes(applied.output, ThinkClose)

\* C26: whenever no save is under way, the OK and Cancel buttons are enabled
\* exactly when the text field's value differs from the API key stored in the
\* settings.
C26_ButtonsTrackStoredKey ==
  editor.saving = 0 =>
    /\ ~editor.okDisabled <=> (editor.text # ActiveApiKey(store))
    /\ ~editor.cancelDisabled <=> (editor.text # ActiveApiKey(store))

\* The editor after a key was typed while a save was under way and the save
\* has finished: the text differs from the stored key, the buttons are off.
C26_TypedDuringSave ==
  /\ editor.saving = 0
  /\ editor.text # ActiveApiKey(store)
  /\ editor.okDisabled
  /\ editor.cancelDisabled

\* C27: with the lower-case option on, the title generateTitle returns has no
\* upper-case letter.
C27_LowerCaseResult ==
  (entry = "generateTitle" /\ pc = "returned" /\ settings.lowerCaseTitles)
    => \A k \in 1..Len(result) : result[k] \notin DOMAIN LowerOf

\* C28: generateTitle returns a non-empty title only if an attempt of the
\* request gave a non-empty cleaned title.
C28_NoFabricatedTitle ==
  (entry = "generateTitle" /\ pc = "returned" /\ result # <<>>)
    => \E i \in 1..Len(calls) : calls[i].status = "resolved" /\ calls[i].title # <<>>

\* C30: with the strip-forbidden-characters option on, a non-empty title
\* returned by generateTitle is left unchanged by sanitizeFilename.
C30_ResultInNormalForm ==
  (/\ entry = "generateTitle"
   /\ pc = "returned"
   /\ settings.removeForbiddenChars
   /\ result # <<>>) => sanitizeFilename(result) = result

====
